---------------------------- MODULE Spec2Model ----------------------------
(***************************************************************************)
(* Verification model of the multi-language translation orchestration      *)
(* core: ParallelTranslationEngine (lib/utils/csv-merger.ts), the          *)
(* providers (lib/providers), TokenRateLimiter (lib/utils/rate-limiter.ts) *)
(* and the retry merge of the translate-progress route.                     *)
(*                                                                         *)
(* Text values are sequences of string fragments, so that string           *)
(* concatenation of the source is \o here.                                 *)
(***************************************************************************)
EXTENDS Integers, Sequences, FiniteSets, TLC

VARIABLES
  entries,     \* processGroups argument: the records, identified by key
  groups,      \* processGroups argument: the translation groups
  options,     \* ParallelTranslationEngine.options (keys and batch config)
  aborted,     \* abortSignal.aborted
  now,         \* Date.now()
  engine,      \* state of the processGroups promise
  pstate,      \* per provider: position of processProviderGroups
  tstate,      \* per provider: the tasks (one provider.translate call each)
  allResults,  \* processGroups' allResults map: group id -> key -> result
  dispatched,  \* history of the requests sent to the rate-limited provider
  failures,    \* number of requests the providers' clients have failed
  stream,      \* the event stream of the translate-progress response
  tokenUsage,  \* TokenRateLimiter.tokenUsage of a limiter used on its own
  maxTokensPerMinute, \* TokenRateLimiter.maxTokens of that limiter
  usageHistory,\* every recordUsage call made on that limiter
  probe,       \* the last canMakeRequest / getRequiredDelay query and answer
  advances,    \* number of clock advances of the limiter's user
  checked,     \* every recordUsage(n) so far directly followed a true
               \* canMakeRequest(n)
  csvData,     \* page state: the entries of the loaded CSV
  pageGroups,  \* page state: the configured translation groups
  translationResults, \* page state: the results shown, or null
  request,     \* body of the POST /api/translate-progress in flight
  runResults,  \* the route's engine run: group id -> key -> result
  response,    \* the last 'complete' event and what it was merged from
  phase,       \* "ready" or "running" (isProcessing)
  page,        \* page state: the error shown and the status of the groups
  cycles,      \* number of translation runs finished
  batchEntries,   \* entries of a processSingleGroupWithConcurrentBatches call
  batchConfig,    \* its ProviderBatchConfig
  batchPc,        \* where that call stands
  waveStart,      \* its loop variable i
  batchState,     \* its processBatch calls: batch number -> state
  singleResults,  \* its results map
  processedCount, \* its processedCount
  batchAborted,   \* abortSignal.aborted of that call
  route,          \* the translation route that received the POST
  env,            \* process.env: which API keys the server has
  bodyConfig,     \* body.batchConfig of the POST, if given
  routeReply,     \* what the route has answered so far
  aiResponse,     \* the text a provider's model has answered with
  parseCall,      \* the parsing call made on it and its arguments
  parseResult,    \* what that call returned
  backoff         \* the last calculateBackoffDelay call and its value

engineVars == <<entries, groups, options, aborted, engine, pstate, tstate,
                allResults, dispatched, failures, stream>>

limiterVars == <<tokenUsage, maxTokensPerMinute, usageHistory, probe, advances,
                 checked>>

retryVars == <<csvData, pageGroups, translationResults, request, runResults,
               response, phase, page, cycles>>

batchVars == <<batchEntries, batchConfig, batchPc, waveStart, batchState,
               singleResults, processedCount, batchAborted>>

routeVars == <<route, env, bodyConfig, routeReply>>

parseVars == <<aiResponse, parseCall, parseResult>>

backoffVars == <<backoff>>

notEngine == <<limiterVars, retryVars, batchVars, routeVars, parseVars,
               backoffVars>>

notLimiter == <<engineVars, retryVars, batchVars, routeVars, parseVars,
                backoffVars>>

notRetry == <<engineVars, now, limiterVars, batchVars, routeVars,
              parseVars, backoffVars>>

notBatch == <<engineVars, now, limiterVars, retryVars, routeVars,
              parseVars, backoffVars>>

notParse == <<engineVars, now, limiterVars, retryVars, batchVars, routeVars,
              backoffVars>>

notBackoff == <<engineVars, now, limiterVars, retryVars, batchVars,
                routeVars, parseVars>>

vars == <<engineVars, now, limiterVars, retryVars, batchVars, routeVars,
          parseVars, backoffVars>>

---------------------------------------------------------------------------
(* Bounds of the model *)

MaxEntries == 2
MaxGroups == 2
MaxBatchSize == 2
MaxConcurrent == 2
MaxTicks == 1
MaxFailures == 2
MaxBudget == 2
MaxRecords == 2
MaxAdvances == 2
MaxRows == 2
MaxColumns == 2
MaxCycles == 2
MaxLines == 2
MaxRequested == 2
MaxRetryTicks == 3
MaxRetryFailures == 4


(* Program constants *)

windowMs == 60000

\* granularity of the model's clock: one window per tick
TickMs == windowMs
AnthropicMaxTokens == 200000
rateLimitRetries == 3
initialRetryDelay == 2000
ResponseEstimate == 1000

---------------------------------------------------------------------------
(* Generic helpers *)

Min(a, b) == IF a <= b THEN a ELSE b

Max(a, b) == IF a >= b THEN a ELSE b

RECURSIVE SumTokens(_)
SumTokens(log) ==
  IF log = <<>> THEN 0 ELSE Head(log).tokens + SumTokens(Tail(log))

RECURSIVE SumSet(_)
SumSet(S) ==
  IF S = {} THEN 0
  ELSE LET x == CHOOSE y \in S : TRUE IN x.tokens + SumSet(S \ {x})

MapSet(m, k, v) == [x \in (DOMAIN m) \cup {k} |-> IF x = k THEN v ELSE m[x]]

EmptyMap == [x \in {} |-> x]

Range(f) == {f[x] : x \in DOMAIN f}

KeyNames == <<"a", "b", "c", "d">>
GroupIds == <<"g1", "g2", "g3", "g4">>
Providers == {"openai", "anthropic", "google"}

---------------------------------------------------------------------------
(* TokenRateLimiter *)

\* Math.ceil(text.length / 4)
estimateTokens(len) == (len + 3) \div 4

estimateRequestTokens(systemLen, userLen, responseEstimate) ==
  estimateTokens(systemLen) + estimateTokens(userLen) + responseEstimate

\* mutant of cleanOldEntries: an entry exactly windowMs old is kept
cleanOldEntries_Inclusive(log, t) ==
  SelectSeq(log, LAMBDA e : e.timestamp >= t - windowMs)

\* mutant of cleanOldEntries: the log is never pruned
cleanOldEntries_KeepAll(log, t) == log

\* tokenUsage.filter(entry => entry.timestamp > Date.now() - windowMs)
cleanOldEntries(log, t) ==
  SelectSeq(log, LAMBDA e : e.timestamp > t - windowMs)

\* mutant of canMakeRequest: the usage of the window is not counted
canMakeRequest_IgnoreUsage(log, estimatedTokens, maxTokens, t) ==
  estimatedTokens <= maxTokens

canMakeRequest(log, estimatedTokens, maxTokens, t) ==
  SumTokens(cleanOldEntries(log, t)) + estimatedTokens <= maxTokens

\* mutant of oldestRelevant: the delay always waits for the oldest entry only
oldestRelevant_First(log, tokensToFree, t) ==
  IF log = <<>> THEN t ELSE Head(log).timestamp

\* the loop of getRequiredDelay: timestamp of the first entry at which the
\* running deficit drops to 0, or Date.now() when the loop runs off the log
RECURSIVE oldestRelevant(_, _, _)
oldestRelevant(log, tokensToFree, t) ==
  IF log = <<>> THEN t
  ELSE IF tokensToFree - Head(log).tokens <= 0 THEN Head(log).timestamp
  ELSE oldestRelevant(Tail(log), tokensToFree - Head(log).tokens, t)

getRequiredDelay(log, estimatedTokens, maxTokens, t) ==
  LET cleaned == cleanOldEntries(log, t)
      currentUsage == SumTokens(cleaned)
  IN IF currentUsage + estimatedTokens <= maxTokens THEN 0
     ELSE LET ts == oldestRelevant(cleaned,
                      currentUsage + estimatedTokens - maxTokens, t)
          IN Max(0, windowMs - (t - ts))

recordUsage(log, tokens, t) ==
  cleanOldEntries(Append(log, [timestamp |-> t, tokens |-> tokens]), t)

---------------------------------------------------------------------------
(* Results *)

Sentinel(msg) ==
  [translation |-> <<"[ERROR]">>, category |-> <<"Error">>, reasoning |-> msg]

Translated(gid, key) ==
  [translation |-> <<"T", gid, key>>, category |-> <<"Common">>,
   reasoning |-> <<"ok">>]

NoResult == [translation |-> <<>>, category |-> <<>>, reasoning |-> <<>>]

IsSentinel(r) == r.translation = <<"[ERROR]">> /\ r.category = <<"Error">>

\* message of the error the provider client throws
ClientMessage(outcome) ==
  IF outcome = "rate_limit" THEN <<"429 rate_limit_error">>
  ELSE <<"network error">>

ProviderPrefix(p) ==
  IF p = "openai" THEN <<"OpenAI translation failed: ">>
  ELSE IF p = "anthropic" THEN <<"Anthropic translation failed: ">>
  ELSE <<"Google translation failed: ">>

\* mutant of isRateLimitError: every error counts as a rate-limit error
isRateLimitError_Any(outcome) == outcome # "ok"

\* error.message.includes('429') || includes('rate_limit_error') || ...
isRateLimitError(outcome) == outcome = "rate_limit"

\* mutant of shouldRetry: the attempts are not counted
shouldRetry_NoCeiling(p, outcome, attempt) ==
  p = "anthropic" /\ isRateLimitError(outcome)

\* the catch of a provider's translate: only AnthropicProvider retries,
\* 'if (this.isRateLimitError(error) && attempt <= this.rateLimitRetries)'
shouldRetry(p, outcome, attempt) ==
  /\ p = "anthropic"
  /\ isRateLimitError(outcome)
  /\ attempt <= rateLimitRetries

\* mutant of calculateBackoffDelay: the delay is not capped
calculateBackoffDelay_NoCap(attempt, jitter) ==
  initialRetryDelay * (2 ^ (attempt - 1)) + jitter

\* Math.min(initialRetryDelay * 2^(attempt-1) + jitter, 30000)
calculateBackoffDelay(attempt, jitter) ==
  Min(initialRetryDelay * (2 ^ (attempt - 1)) + jitter, 30000)

---------------------------------------------------------------------------
(* ParallelTranslationEngine: task list, batches, waves *)

\* groupByProvider
groupByProvider(p) == SelectSeq(groups, LAMBDA g : g.provider = p)

apiKey(p) ==
  IF p = "openai" THEN options.openaiKey
  ELSE IF p = "anthropic" THEN options.anthropicKey
  ELSE options.googleKey

providerConfig(p) == options[p]

\* groups.forEach(group => entries.forEach(entry => allTasks.push(...)))
allTasks(p) ==
  LET gs == groupByProvider(p)
      n == Len(entries)
  IN [k \in 1..(Len(gs) * n) |->
        [entry |-> entries[((k - 1) % n) + 1],
         group |-> gs[((k - 1) \div n) + 1]]]

\* mutant of createBatches: only full batches are made and a remainder of
\* fewer than batchSize tasks is dropped
createBatches_DropRemainder(items, batchSize) ==
  [b \in 1..(Len(items) \div batchSize) |->
     SubSeq(items, (b - 1) * batchSize + 1, b * batchSize)]

\* for (i = 0; i < items.length; i += batchSize)
\*   batches.push(items.slice(i, i + batchSize))

createBatches(items, batchSize) ==
  [b \in 1..((Len(items) + batchSize - 1) \div batchSize) |->
     SubSeq(items, (b - 1) * batchSize + 1, Min(b * batchSize, Len(items)))]

\* mutant of WaveBatches: the slice starts at the first batch again
WaveBatches_FromStart(p, i, nb) ==
  1..Min(i + providerConfig(p).concurrentBatches, nb)

\* mutant of WaveBatches: the slice has no upper end and a wave takes every
\* remaining batch
WaveBatches_Wide(p, i, nb) == (i + 1)..nb

\* batches.slice(i, i + concurrentBatches), as batch numbers (1-based);
\* nb is batches.length
WaveBatches(p, i, nb) ==
  (i + 1)..Min(i + providerConfig(p).concurrentBatches, nb)

\* estimated token cost of the single request of a task
TaskTokens(group) ==
  estimateRequestTokens(group.systemLen, group.userLen, ResponseEstimate)

\* one provider.translate call of processMixedBatch for task (entry, group),
\* on the provider object that createProvider made for it (tokenUsage is that
\* object's limiter log); task ids are <<batch number, index in the batch>>
NewTask(task) ==
  [entry |-> task.entry, gid |-> task.group.id,
   tokens |-> TaskTokens(task.group),
   st |-> "new", attempt |-> 0, wait |-> "none", wakeAt |-> 0,
   result |-> NoResult, tokenUsage |-> <<>>, sent |-> 0, recorded |-> 0,
   outcome |-> "none", seenUsage |-> 0, sharedUsage |-> 0, handed |-> 0]

\* AnthropicProvider.translateWithRetry(options, attempt) up to its first
\* await: the limiter is consulted, then the call waits or sends the request.
\* usageLog is every recordUsage call made for this provider in the run.
translateWithRetry(tr, attempt, usageLog) ==
  LET cleaned == cleanOldEntries(tr.tokenUsage, now)
      delay == getRequiredDelay(tr.tokenUsage, tr.tokens, AnthropicMaxTokens,
                                now)
      base == [tr EXCEPT !.attempt = attempt, !.tokenUsage = cleaned,
                 !.seenUsage = SumTokens(cleaned),
                 !.sharedUsage = SumTokens(cleanOldEntries(usageLog, now))]
  IN IF delay > 0
     THEN [base EXCEPT !.st = "waiting", !.wait = "rate",
                       !.wakeAt = now + delay]
     ELSE [base EXCEPT !.st = "inflight", !.wait = "none", !.sent = @ + 1]

\* provider.translate up to its first await, on a provider object fresh from
\* createProvider
translate(p, tr, usageLog) ==
  IF p = "anthropic"
  THEN translateWithRetry([tr EXCEPT !.tokenUsage = <<>>,
                                     !.handed = @ + 1], 1, usageLog)
  ELSE [tr EXCEPT !.st = "inflight", !.attempt = 1, !.sent = @ + 1,
                  !.handed = @ + 1]

\* mutant of loopFrom: the loop bound is off by one and the last batch is
\* never processed
loopFrom_SkipLast(p, i, ps, ts, ab) ==
  IF i >= ps.nb - 1
  THEN [ps |-> [ps EXCEPT !.pc = "done", !.i = i], ts |-> ts]
  ELSE IF ab
  THEN [ps |-> [ps EXCEPT !.pc = "cancelled", !.i = i], ts |-> ts]
  ELSE [ps |-> [ps EXCEPT !.pc = "wave", !.i = i],
        ts |-> [id \in DOMAIN ts |->
                  IF id[1] \in WaveBatches(p, i, ps.nb)
                  THEN translate(p, ts[id], ps.usageLog)
                  ELSE ts[id]]]

\* the wave loop of processProviderGroups entered at batch index i, run up
\* to its next await (ab is abortSignal.aborted)
loopFrom(p, i, ps, ts, ab) ==
  IF i >= ps.nb
  THEN [ps |-> [ps EXCEPT !.pc = "done", !.i = i], ts |-> ts]
  ELSE IF ab
  THEN [ps |-> [ps EXCEPT !.pc = "cancelled", !.i = i], ts |-> ts]
  ELSE [ps |-> [ps EXCEPT !.pc = "wave", !.i = i],
        ts |-> [id \in DOMAIN ts |->
                  IF id[1] \in WaveBatches(p, i, ps.nb)
                  THEN translate(p, ts[id], ps.usageLog)
                  ELSE ts[id]]]

\* mutant of afterWave: the next wave starts as soon as the wave is done
afterWave_NoDelay(p, ps, ts, ab) ==
  loopFrom(p, ps.i + providerConfig(p).concurrentBatches, ps, ts, ab)

\* processProviderGroups after 'await Promise.all(batchPromises)'
afterWave(p, ps, ts, ab) ==
  LET cfg == providerConfig(p)
  IN IF ps.i + cfg.concurrentBatches < ps.nb /\ cfg.delayMs > 0
     THEN IF ab
          THEN [ps |-> [ps EXCEPT !.pc = "cancelled"], ts |-> ts]
          ELSE [ps |-> [ps EXCEPT !.pc = "delay",
                                  !.wakeAt = now + cfg.delayMs], ts |-> ts]
     ELSE loopFrom(p, ps.i + cfg.concurrentBatches, ps, ts, ab)

BatchIds(b, ts) == {id \in DOMAIN ts : id[1] = b}

\* mutant of distribute: every task of the batch receives the result at
\* index 0 of the batch
distribute_FirstIndex(b, gr, ts) ==
  [g \in DOMAIN gr |->
     LET mine == {id \in BatchIds(b, ts) : ts[id].gid = g}
     IN [k \in (DOMAIN gr[g]) \cup {ts[id].entry : id \in mine} |->
           IF \E id \in mine : ts[id].entry = k
           THEN ts[<<b, 1>>].result
           ELSE gr[g][k]]]

\* batchResults.forEach: the results of batch b go to the groups' maps
\* (record keys are unique, so the order within the batch does not matter)
distribute(b, gr, ts) ==
  [g \in DOMAIN gr |->
     LET mine == {id \in BatchIds(b, ts) : ts[id].gid = g}
     IN [k \in (DOMAIN gr[g]) \cup {ts[id].entry : id \in mine} |->
           IF \E id \in mine : ts[id].entry = k
           THEN ts[CHOOSE id \in mine : ts[id].entry = k].result
           ELSE gr[g][k]]]

\* Math.round(c / n * 100)
round(c, n) == (200 * c + n) \div (2 * n)

\* batchResults.forEach from index k on: the group's counter is read,
\* incremented and stored, and onGroupProgress is called with the percentage
RECURSIVE reportFrom(_, _, _, _)
reportFrom(b, k, ps, ts) ==
  IF <<b, k>> \notin DOMAIN ts THEN ps
  ELSE LET g == ts[<<b, k>>].gid
           currentProgress == ps.groupProgress[g]
           progress == round(currentProgress + 1, Len(entries))
       IN reportFrom(b, k + 1,
            [ps EXCEPT !.groupProgress[g] = currentProgress + 1,
                       !.reported[g] = Append(@, progress)], ts)

\* mutant of reportBatch: the counter is read once per batch, so the tasks
\* of one batch all report the same count and increments are lost
reportBatch_Stale(b, ps, ts) ==
  LET mine(g) == {id \in BatchIds(b, ts) : ts[id].gid = g}
  IN [ps EXCEPT
        !.groupProgress = [g \in DOMAIN @ |->
                             IF mine(g) = {} THEN @[g] ELSE @[g] + 1],
        !.reported = [g \in DOMAIN @ |->
                        @[g] \o [k \in 1..Cardinality(mine(g)) |->
                                   round(ps.groupProgress[g] + 1,
                                         Len(entries))]]]

\* the progress part of batchResults.forEach for batch b
reportBatch(b, ps, ts) == reportFrom(b, 1, ps, ts)

BatchDone(b, ts) == \A id \in BatchIds(b, ts) : ts[id].st = "done"

\* the wave is over only when every batch of the provider is done
WaveDone_AllBatches(p, i, nb, ts) == \A b \in 1..nb : BatchDone(b, ts)

WaveDone(p, i, nb, ts) == \A b \in WaveBatches(p, i, nb) : BatchDone(b, ts)

\* a task just settled: the continuations that run before the next event
afterTask(p, id, ps, ts, ab) ==
  LET ps1 == IF BatchDone(id[1], ts)
             THEN reportBatch(id[1],
                    [ps EXCEPT !.groupResults =
                       distribute(id[1], ps.groupResults, ts)], ts)
             ELSE ps
  IN IF WaveDone(p, ps.i, ps.nb, ts) THEN afterWave(p, ps1, ts, ab)
     ELSE [ps |-> ps1, ts |-> ts]

HasGroups(p) == \E k \in DOMAIN groups : groups[k].provider = p

\* mutant of collect: a provider that finishes replaces the whole table by
\* its own groups
collect_Overwrite(oldPs, newPs, res) ==
  LET fresh == {p \in Providers :
                  newPs[p].pc = "done" /\ oldPs[p].pc # "done"}
  IN IF fresh = {} THEN res
     ELSE [g \in UNION {DOMAIN newPs[p].groupResults : p \in fresh} |->
             newPs[CHOOSE p \in fresh :
                     g \in DOMAIN newPs[p].groupResults].groupResults[g]]

\* the .then callbacks of processGroups: results.forEach(allResults.set)
collect(oldPs, newPs, res) ==
  LET fresh == {p \in Providers :
                  newPs[p].pc = "done" /\ oldPs[p].pc # "done"}
  IN IF fresh = {} THEN res
     ELSE [g \in (DOMAIN res) \cup
                 UNION {DOMAIN newPs[p].groupResults : p \in fresh} |->
             IF \E p \in fresh : g \in DOMAIN newPs[p].groupResults
             THEN newPs[CHOOSE p \in fresh :
                          g \in DOMAIN newPs[p].groupResults].groupResults[g]
             ELSE res[g]]

\* 'await Promise.all(providerPromises)'
settle(oldPs, newPs, eng) ==
  IF eng # "running" THEN eng
  ELSE IF \E p \in Providers :
            newPs[p].pc = "cancelled" /\ oldPs[p].pc # "cancelled"
  THEN "rejected"
  ELSE IF \A p \in Providers : HasGroups(p) => newPs[p].pc = "done"
  THEN "resolved"
  ELSE "running"

\* the requests of the rate-limited provider sent between ts and nts
Sent(p, ts, nts) ==
  IF p # "anthropic" THEN {}
  ELSE {[gid |-> nts[id].gid, key |-> nts[id].entry,
         attempt |-> nts[id].attempt, time |-> now,
         tokens |-> nts[id].tokens] :
          id \in {x \in DOMAIN nts :
                    nts[x].sent > (IF x \in DOMAIN ts THEN ts[x].sent
                                   ELSE 0)}}

---------------------------------------------------------------------------
(* The run: ParallelTranslationEngine.processGroups *)

\* lengths of the system prompts the groups may carry
SystemLens == {476000, 996000}
ShortLen == 40
DelayChoices == {0, 1000}
Jitter == 500

\* how a provider's client settles a request: a response, an error with a
\* rate-limit message (HTTP 429), or another error
Outcomes(p) == {"ok", "rate_limit", "error"}

BatchConfigs ==
  [batchSize : 1..MaxBatchSize, concurrentBatches : 1..MaxConcurrent,
   delayMs : DelayChoices]

GroupChoices(k) ==
  {[id |-> GroupIds[k], provider |-> "anthropic", systemLen |-> l,
    userLen |-> ShortLen] : l \in SystemLens} \cup
  {[id |-> GroupIds[k], provider |-> p, systemLen |-> ShortLen,
    userLen |-> ShortLen] : p \in Providers \ {"anthropic"}}

GroupLists ==
  UNION {{gl \in [1..m -> UNION {GroupChoices(k) : k \in 1..m}] :
            \A k \in 1..m : gl[k].id = GroupIds[k]} : m \in 1..MaxGroups}

\* no event was enqueued and the stream is open
NoStream == [events |-> <<>>, isControllerClosed |-> FALSE]

\* groupProgress is the provider's counter map; reported holds, per group,
\* the percentages onGroupProgress was called with, in call order
IdlePs ==
  [pc |-> "none", i |-> 0, nb |-> 0, wakeAt |-> 0, usageLog |-> <<>>,
   groupResults |-> EmptyMap, groupProgress |-> EmptyMap,
   reported |-> EmptyMap]

NoProbe ==
  [valid |-> FALSE, n |-> 0, at |-> 0, can |-> TRUE, delay |-> 0,
   asked |-> FALSE, percentage |-> 0]

\* no stand-alone limiter in this run
LimiterUnused ==
  /\ tokenUsage = <<>>
  /\ maxTokensPerMinute = 0
  /\ usageHistory = <<>>
  /\ probe = NoProbe
  /\ advances = 0
  /\ checked = TRUE

NoTable == [present |-> FALSE, entries |-> <<>>]

NoRange == [startRow |-> 0, endRow |-> 0]

NoRequest ==
  [entries |-> <<>>, previousResults |-> NoTable, rowRange |-> NoRange]

NoResponse == [type |-> "none", previous |-> NoTable, fresh |-> <<>>,
               results |-> NoTable]

\* the page before a run: no error shown, the groups not started
NoPage == [error |-> "", status |-> "pending"]

\* no page and no translate-progress request in this run
RetryUnused ==
  /\ page = NoPage
  /\ csvData = <<>>
  /\ pageGroups = <<>>
  /\ translationResults = NoTable
  /\ request = NoRequest
  /\ runResults = EmptyMap
  /\ response = NoResponse
  /\ phase = "unused"
  /\ cycles = 0

\* no processSingleGroupWithConcurrentBatches call in this run
BatchUnused ==
  /\ batchEntries = <<>>
  /\ batchConfig = [batchSize |-> 1, concurrentBatches |-> 1, delayMs |-> 0]
  /\ batchPc = "unused"
  /\ waveStart = 0
  /\ batchState = <<>>
  /\ singleResults = EmptyMap
  /\ processedCount = 0
  /\ batchAborted = FALSE

NoBodyConfig ==
  [given |-> FALSE,
   openai |-> [batchSize |-> 1, concurrentBatches |-> 1, delayMs |-> 0],
   anthropic |-> [batchSize |-> 1, concurrentBatches |-> 1, delayMs |-> 0]]

\* no POST to a translation route in this run
RouteUnused ==
  /\ route = "none"
  /\ env = [openai |-> FALSE, anthropic |-> FALSE, google |-> FALSE]
  /\ bodyConfig = NoBodyConfig
  /\ routeReply = "unused"

NoParseCall ==
  [fn |-> "none", text |-> <<>>, language |-> "", key |-> <<>>,
   entries |-> <<>>, threw |-> FALSE]

NoParseResult == [translation |-> <<>>, category |-> <<>>, reasoning |-> <<>>]

\* no provider response is parsed in this run
ParseUnused ==
  /\ aiResponse = <<>>
  /\ parseCall = NoParseCall
  /\ parseResult = NoParseResult

\* the run has one task; its retry sequence is followed to the end, with
\* more failures and more clock ticks than a run of several tasks gets
SingleTask == Len(entries) = 1 /\ Len(groups) = 1

FailureLimit == IF SingleTask THEN MaxRetryFailures ELSE MaxFailures

TickLimit == IF SingleTask THEN MaxRetryTicks ELSE MaxTicks

NoBackoff == [attempt |-> 0, jitter |-> 0, delay |-> 0]

\* no stand-alone calculateBackoffDelay call in this run
BackoffUnused == backoff = NoBackoff

\* processProviderGroups from its call to its first await
startProvider(p) ==
  LET gs == groupByProvider(p)
      bs == createBatches(allTasks(p), providerConfig(p).batchSize)
      empty == [g \in {gs[k].id : k \in 1..Len(gs)} |-> EmptyMap]
      ps0 == [IdlePs EXCEPT !.groupResults = empty, !.nb = Len(bs),
                            !.groupProgress = [g \in DOMAIN empty |-> 0],
                            !.reported = [g \in DOMAIN empty |-> <<>>]]
      ts0 == [id \in {x \in (1..Len(bs)) \X (1..providerConfig(p).batchSize) :
                        x[2] <= Len(bs[x[1]])} |->
                NewTask(bs[id[1]][id[2]])]
  IN IF ~HasGroups(p) THEN [ps |-> IdlePs, ts |-> EmptyMap]
     ELSE IF ~apiKey(p)
     THEN [ps |-> [IdlePs EXCEPT !.pc = "done", !.groupResults = empty],
           ts |-> EmptyMap]
     ELSE loopFrom(p, 0, ps0, ts0, aborted)

Init ==
  /\ entries \in {SubSeq(KeyNames, 1, n) : n \in 1..MaxEntries}
  /\ groups \in GroupLists
  /\ \E cfg \in BatchConfigs, ko, ka, kg \in BOOLEAN :
       /\ HasGroups("openai") \/ ~ko
       /\ HasGroups("anthropic") \/ ~ka
       /\ HasGroups("google") \/ ~kg
       /\ options = [openaiKey |-> ko, anthropicKey |-> ka, googleKey |-> kg,
                     openai |-> cfg, anthropic |-> cfg, google |-> cfg]
  /\ aborted = FALSE
  /\ now = 0
  /\ engine = "idle"
  /\ pstate = [p \in Providers |-> IdlePs]
  /\ tstate = [p \in Providers |-> EmptyMap]
  /\ allResults = EmptyMap
  /\ dispatched = {}
  /\ failures = 0
  /\ stream = NoStream
  /\ LimiterUnused
  /\ RetryUnused
  /\ BatchUnused
  /\ RouteUnused
  /\ ParseUnused
  /\ BackoffUnused

\* safeEnqueue of the translate-progress route: the event is dropped when
\* the stream was closed or the client has disconnected
safeEnqueue(st, event) ==
  IF st.isControllerClosed \/ aborted THEN st
  ELSE [st EXCEPT !.events = Append(@, event)]

RECURSIVE enqueueAll(_, _)
enqueueAll(st, evs) ==
  IF evs = <<>> THEN st
  ELSE enqueueAll(safeEnqueue(st, Head(evs)), Tail(evs))

\* the onGroupProgress calls of a step that takes the tasks to nts, as the
\* route's callback turns them into events: one per task of the batch
\* whose results were distributed, in the order of the batch
progressEvents(nts) ==
  LET fresh == {x \in Providers \X (1..MaxEntries * MaxGroups) :
                  /\ BatchIds(x[2], nts[x[1]]) # {}
                  /\ BatchDone(x[2], nts[x[1]])
                  /\ ~BatchDone(x[2], tstate[x[1]])}
  IN IF fresh = {} THEN <<>>
     ELSE LET x == CHOOSE y \in fresh : TRUE
              p == x[1]
              b == x[2]
              gid(k) == nts[p][<<b, k>>].gid
              before(k) == Len(pstate[p].reported[gid(k)])
              nth(k) == Cardinality({j \in 1..k : gid(j) = gid(k)})
          IN [k \in 1..Cardinality(BatchIds(b, nts[p])) |->
                [type |-> "progress", groupId |-> gid(k),
                 progress |-> round(before(k) + nth(k), Len(entries))]]

\* the stream of the translate-progress route after a step of the run that
\* takes the tasks to nts, the processGroups promise to eng and the result
\* table to res: progress events, then 'complete' or 'error' when the
\* promise has settled, and the finally block; other callers have no stream
published(nts, eng, res) ==
  IF route # "translate-progress" THEN stream
  ELSE LET s1 == enqueueAll(stream, progressEvents(nts))
           s2 == IF eng = "resolved"
                 THEN safeEnqueue(s1, [type |-> "complete", results |-> res])
                 ELSE safeEnqueue(s1, [type |-> "error"])
       IN IF eng \in {"resolved", "rejected"} /\ eng # engine
          THEN [s2 EXCEPT !.isControllerClosed = TRUE]
          ELSE s1

\* processGroups is called
ProcessGroups ==
  /\ engine = "idle"
  /\ IF aborted
     THEN /\ engine' = "rejected"
          /\ stream' = published(tstate, "rejected", allResults)
          /\ UNCHANGED <<pstate, tstate, allResults, dispatched>>
     ELSE LET r == [p \in Providers |-> startProvider(p)]
              nps == [p \in Providers |-> r[p].ps]
              nts == [p \in Providers |-> r[p].ts]
          IN /\ pstate' = nps
             /\ tstate' = nts
             /\ allResults' = collect(pstate, nps, allResults)
             /\ engine' = settle(pstate, nps, "running")
             /\ stream' = published(nts, settle(pstate, nps, "running"),
                                    collect(pstate, nps, allResults))
             /\ dispatched' = dispatched \cup
                  UNION {Sent(p, tstate[p], r[p].ts) : p \in Providers}
  /\ UNCHANGED <<entries, groups, options, aborted, now, failures>>
  /\ UNCHANGED notEngine

\* the provider's client settles the request of task id with outcome: the
\* continuation of the translate call, up to the next await
Settled(p, id, outcome) ==
  /\ pstate[p].pc = "wave"
  /\ id \in DOMAIN tstate[p]
  /\ tstate[p][id].st = "inflight"
  /\ LET tr == [tstate[p][id] EXCEPT !.outcome = outcome]
         retry == shouldRetry(p, outcome, tr.attempt)
         ntr == IF outcome = "ok"
                THEN IF p = "anthropic"
                     THEN [tr EXCEPT !.st = "done",
                             !.result = Translated(tr.gid, tr.entry),
                             !.tokenUsage = recordUsage(@, tr.tokens, now),
                             !.recorded = @ + 1]
                     ELSE [tr EXCEPT !.st = "done",
                             !.result = Translated(tr.gid, tr.entry)]
                ELSE IF retry
                THEN [tr EXCEPT !.st = "waiting", !.wait = "backoff",
                        !.wakeAt = now +
                           calculateBackoffDelay(tr.attempt, Jitter)]
                ELSE [tr EXCEPT !.st = "done",
                        !.result = Sentinel(ProviderPrefix(p) \o
                                            ClientMessage(outcome))]
         ps1 == IF outcome = "ok" /\ p = "anthropic"
                THEN [pstate[p] EXCEPT !.usageLog =
                        Append(@, [timestamp |-> now, tokens |-> tr.tokens])]
                ELSE pstate[p]
         ts1 == [tstate[p] EXCEPT ![id] = ntr]
         r == IF ntr.st = "done" THEN afterTask(p, id, ps1, ts1, aborted)
              ELSE [ps |-> ps1, ts |-> ts1]
         nps == [pstate EXCEPT ![p] = r.ps]
         nts == [tstate EXCEPT ![p] = r.ts]
     IN /\ pstate' = nps
        /\ tstate' = nts
        /\ allResults' = collect(pstate, nps, allResults)
        /\ engine' = settle(pstate, nps, engine)
        /\ stream' = published(nts, settle(pstate, nps, engine),
                               collect(pstate, nps, allResults))
        /\ dispatched' = dispatched \cup Sent(p, ts1, r.ts)
  /\ failures' = IF outcome = "ok" THEN failures ELSE failures + 1
  /\ UNCHANGED <<entries, groups, options, aborted, now>>
  /\ UNCHANGED notEngine

\* a request is settled; the number of failing requests of a run is bounded
Respond(p, id, outcome) ==
  /\ outcome # "ok" => failures < FailureLimit
  /\ Settled(p, id, outcome)

\* the timer a translate call waits on fires (rate-limit delay or backoff)
WakeTask(p, id) ==
  /\ pstate[p].pc = "wave"
  /\ id \in DOMAIN tstate[p]
  /\ tstate[p][id].st = "waiting"
  /\ now >= tstate[p][id].wakeAt
  /\ LET tr == tstate[p][id]
         ntr == IF tr.wait = "rate"
                THEN [tr EXCEPT !.st = "inflight", !.wait = "none",
                                !.sent = @ + 1]
                ELSE translateWithRetry(tr, tr.attempt + 1,
                                        pstate[p].usageLog)
         nts == [tstate[p] EXCEPT ![id] = ntr]
     IN /\ tstate' = [tstate EXCEPT ![p] = nts]
        /\ dispatched' = dispatched \cup Sent(p, tstate[p], nts)
  /\ UNCHANGED <<entries, groups, options, aborted, now, engine, pstate,
                 allResults, failures, stream>>
  /\ UNCHANGED notEngine

\* the inter-wave delay of processProviderGroups ends
WakeDelay(p) ==
  /\ pstate[p].pc = "delay"
  /\ now >= pstate[p].wakeAt
  /\ LET r == loopFrom(p, pstate[p].i + providerConfig(p).concurrentBatches,
                       pstate[p], tstate[p], aborted)
         nps == [pstate EXCEPT ![p] = r.ps]
         nts == [tstate EXCEPT ![p] = r.ts]
     IN /\ pstate' = nps
        /\ tstate' = nts
        /\ allResults' = collect(pstate, nps, allResults)
        /\ engine' = settle(pstate, nps, engine)
        /\ stream' = published(nts, settle(pstate, nps, engine),
                               collect(pstate, nps, allResults))
        /\ dispatched' = dispatched \cup Sent(p, tstate[p], r.ts)
  /\ UNCHANGED <<entries, groups, options, aborted, now, failures>>
  /\ UNCHANGED notEngine

Active == \E p \in Providers : pstate[p].pc \in {"wave", "delay"}

\* the caller aborts the run (abortController.abort())
Abort ==
  /\ ~aborted
  /\ engine = "idle" \/ Active
  /\ aborted' = TRUE
  /\ stream' = IF route = "translate-progress"
               THEN [stream EXCEPT !.isControllerClosed = TRUE]
               ELSE stream
  /\ UNCHANGED <<entries, groups, options, now, engine, pstate, tstate,
                 allResults, dispatched, failures>>
  /\ UNCHANGED notEngine

\* time passes
Tick ==
  /\ Active
  /\ now < TickLimit * TickMs
  /\ now' = now + TickMs
  /\ UNCHANGED <<entries, groups, options, aborted, engine, pstate, tstate,
                 allResults, dispatched, failures, stream>>
  /\ UNCHANGED notEngine

Next ==
  \/ ProcessGroups
  \/ \E p \in Providers : \E id \in DOMAIN tstate[p] :
        \E outcome \in Outcomes(p) : Respond(p, id, outcome)
  \/ \E p \in Providers : \E id \in DOMAIN tstate[p] : WakeTask(p, id)
  \/ \E p \in Providers : WakeDelay(p)
  \/ Abort
  \/ Tick

Spec == Init /\ [][Next]_vars

\* a timer of the run (a rate-limit delay, a backoff or an inter-wave delay)
\* has not expired yet
TimerPending ==
  \E p \in Providers :
     \/ pstate[p].pc = "delay" /\ pstate[p].wakeAt > now
     \/ /\ pstate[p].pc = "wave"
        /\ \E id \in DOMAIN tstate[p] :
              tstate[p][id].st = "waiting" /\ tstate[p][id].wakeAt > now

\* time passes while a timer of the run is pending
TimerTick ==
  /\ TimerPending
  /\ now' = now + TickMs
  /\ UNCHANGED <<entries, groups, options, aborted, engine, pstate, tstate,
                 allResults, dispatched, failures, stream>>
  /\ UNCHANGED notEngine

\* the runs of one provider group, followed to their end: any request may
\* fail, and the clock runs as long as a timer waits for it. A group of the
\* retrying provider has one task, or its batches go one by one.
InitFair ==
  /\ Init
  /\ Len(groups) = 1
  /\ groups[1].provider = "anthropic" =>
        \/ Len(entries) = 1
        \/ /\ options.anthropic.batchSize = 1
           /\ options.anthropic.concurrentBatches = 1

SomeSettled ==
  \E p \in Providers : \E id \in DOMAIN tstate[p] :
     \E outcome \in Outcomes(p) : Settled(p, id, outcome)

SomeTaskWoken ==
  \E p \in Providers : \E id \in DOMAIN tstate[p] : WakeTask(p, id)

SomeDelayOver == \E p \in Providers : WakeDelay(p)

NextFair ==
  \/ ProcessGroups
  \/ SomeSettled
  \/ SomeTaskWoken
  \/ SomeDelayOver
  \/ Abort
  \/ TimerTick

\* processGroups is called, every request is settled by the provider's
\* client, every expired timer fires and the clock advances; the caller
\* need not abort
SpecFair ==
  /\ InitFair
  /\ [][NextFair]_vars
  /\ WF_vars(ProcessGroups)
  /\ WF_vars(SomeSettled)
  /\ WF_vars(SomeTaskWoken)
  /\ WF_vars(SomeDelayOver)
  /\ WF_vars(TimerTick)

---------------------------------------------------------------------------
(* Claims about the run *)

AllKeysConfigured == \A k \in DOMAIN groups : apiKey(groups[k].provider)

HasEntry(res, gid, key) == gid \in DOMAIN res /\ key \in DOMAIN res[gid]

\* C1: when processGroups has returned normally and every group's provider
\* has an API key, allResults holds an entry (a translation or a failure
\* sentinel) for every (record, group) pair of the input.
C1_SentinelCompleteness ==
  (engine = "resolved" /\ AllKeysConfigured) =>
    \A k \in DOMAIN groups, e \in DOMAIN entries :
      /\ HasEntry(allResults, groups[k].id, entries[e])
      /\ allResults[groups[k].id][entries[e]] # NoResult

\* C1 witness: a resolved run of two groups and two records in which a
\* request failed and its cell holds the sentinel
C1_Witness ==
  /\ engine = "resolved"
  /\ AllKeysConfigured
  /\ Len(groups) >= 2 /\ Len(entries) >= 2
  /\ failures > 0
  /\ \E k \in DOMAIN groups, e \in DOMAIN entries :
       /\ HasEntry(allResults, groups[k].id, entries[e])
       /\ IsSentinel(allResults[groups[k].id][entries[e]])

\* C2: a failing provider.translate call never makes processGroups reject
\* (it rejects only on cancellation); the failing task gets the sentinel
\* whose reasoning is the error message, and every settled task, in the
\* batch array and in the group's result map, holds its own result.
C2_FailureIsLocal ==
  /\ engine = "rejected" => aborted
  /\ \A p \in Providers : \A id \in DOMAIN tstate[p] :
       LET tr == tstate[p][id]
       IN tr.st = "done" =>
            /\ tr.outcome # "ok" =>
                 tr.result = [translation |-> <<"[ERROR]">>,
                              category |-> <<"Error">>,
                              reasoning |-> ProviderPrefix(p) \o
                                            ClientMessage(tr.outcome)]
            /\ tr.outcome = "ok" => tr.result = Translated(tr.gid, tr.entry)
            /\ BatchDone(id[1], tstate[p]) =>
                 /\ HasEntry(pstate[p].groupResults, tr.gid, tr.entry)
                 /\ pstate[p].groupResults[tr.gid][tr.entry] = tr.result

\* C2 witness: a batch of two tasks has settled, one request failed and the
\* other succeeded, with both results in the result maps, and the run goes on
C2_Witness ==
  /\ engine # "rejected"
  /\ \E p \in Providers : \E id1, id2 \in DOMAIN tstate[p] :
       /\ id1[1] = id2[1] /\ id1 # id2
       /\ tstate[p][id1].st = "done" /\ tstate[p][id2].st = "done"
       /\ tstate[p][id1].outcome = "error" /\ tstate[p][id2].outcome = "ok"
       /\ HasEntry(pstate[p].groupResults, tstate[p][id1].gid,
                   tstate[p][id1].entry)
       /\ IsSentinel(pstate[p].groupResults[tstate[p][id1].gid]
                                           [tstate[p][id1].entry])

\* C8: the estimated token costs of the requests sent to the rate-limited
\* provider within any 60-second window sum to at most its token budget.
C8_BudgetRespected ==
  \A d \in dispatched :
    SumSet({x \in dispatched :
              x.time > d.time - windowMs /\ x.time <= d.time})
      <= AnthropicMaxTokens

\* C9: the windowed usage that getRequiredDelay evaluates for a request is
\* the usage recorded by all earlier requests of the provider in the run.
C9_SharedLimiter ==
  \A id \in DOMAIN tstate["anthropic"] :
    tstate["anthropic"][id].seenUsage = tstate["anthropic"][id].sharedUsage

\* C10: every request of AnthropicProvider whose response has arrived,
\* failed ones included, has its estimated cost recorded in the limiter.
C10_OptimisticAccounting ==
  \A id \in DOMAIN tstate["anthropic"] :
    LET tr == tstate["anthropic"][id]
    IN tr.st \in {"waiting", "done"} /\ tr.wait # "rate" =>
         tr.recorded = tr.sent

\* C11: once the cancellation signal is set, no further provider request is
\* sent: no new wave, no request after a rate-limiter wait, no retry after
\* a backoff wait.
C11_NoDispatchAfterAbort ==
  [][aborted =>
       \A p \in Providers : \A id \in DOMAIN tstate'[p] :
         /\ id \in DOMAIN tstate[p]
         /\ tstate'[p][id].sent = tstate[p][id].sent]_vars

\* C12: whenever processGroups has settled (resolved, or rejected with
\* 'Translation cancelled'), no request it started is still in flight.
C12_SettledMeansQuiet ==
  engine \in {"resolved", "rejected"} =>
    \A p \in Providers : \A id \in DOMAIN tstate[p] :
      tstate[p][id].st # "inflight"

\* C13: a provider with groups but no API key does not make processGroups
\* fail and gets no request; once the run has resolved, every record of
\* each of its groups has a sentinel entry in allResults, and the groups of
\* the other providers have their normal results.
C13_MissingKeySentinels ==
  /\ engine = "rejected" => aborted
  /\ \A p \in Providers :
       (HasGroups(p) /\ ~apiKey(p)) => tstate[p] = EmptyMap
  /\ engine = "resolved" =>
       \A k \in DOMAIN groups, e \in DOMAIN entries :
         /\ HasEntry(allResults, groups[k].id, entries[e])
         /\ ~apiKey(groups[k].provider) =>
              IsSentinel(allResults[groups[k].id][entries[e]])
         /\ apiKey(groups[k].provider) =>
              allResults[groups[k].id][entries[e]] # NoResult

\* batch b has started: one of its translate calls was made
BatchStarted(b, ts) == \E id \in BatchIds(b, ts) : ts[id].st # "new"

\* the wave (0-based) that batch b belongs to
WaveOf(p, b) == (b - 1) \div providerConfig(p).concurrentBatches

\* C23: for one provider, at no time are more than concurrentBatches batches
\* in progress, and no request of a later wave is dispatched before every
\* batch of the earlier waves has completed.
C23_WavesBounded ==
  \A p \in Providers :
    LET ts == tstate[p]
        running == {b \in 1..pstate[p].nb :
                      BatchStarted(b, ts) /\ ~BatchDone(b, ts)}
    IN /\ Cardinality(running) <= providerConfig(p).concurrentBatches
       /\ \A b, c \in 1..pstate[p].nb :
            (BatchStarted(c, ts) /\ WaveOf(p, b) < WaveOf(p, c)) =>
              BatchDone(b, ts)

\* a request of the second wave is in flight
C23_Witness ==
  \E p \in Providers : \E id \in DOMAIN tstate[p] :
    /\ WaveOf(p, id[1]) = 1
    /\ tstate[p][id].st = "inflight"

\* batches remain after the wave that starts at batch index i
BatchesRemain(p, i) ==
  i + providerConfig(p).concurrentBatches < pstate[p].nb

\* C24: after a wave completes the provider's loop sleeps delayMs before the
\* next wave iff further batches remain and delayMs > 0: it never sleeps
\* after the last wave, a sleep is set to end delayMs after the wave
\* completed, no request of the next wave is dispatched during the sleep,
\* and the next wave starts only when the full delay has elapsed.
C24_InterWaveDelay ==
  [][\A p \in Providers :
       LET old == pstate[p]
           new == pstate'[p]
           delayMs == providerConfig(p).delayMs
       IN /\ (new.pc = "delay" /\ old.pc # "delay") =>
               /\ old.pc = "wave"
               /\ WaveDone(p, old.i, old.nb, tstate'[p])
               /\ BatchesRemain(p, old.i)
               /\ delayMs > 0
               /\ new.wakeAt = now + delayMs
          /\ (old.pc = "wave" /\ new.pc = "wave" /\ new.i # old.i) =>
               delayMs = 0
          /\ (old.pc = "wave" /\ new.pc = "done") => ~BatchesRemain(p, old.i)
          /\ old.pc = "delay" =>
               /\ \A id \in DOMAIN tstate[p] :
                    id[1] > old.i + providerConfig(p).concurrentBatches =>
                      tstate[p][id].st = "new"
               /\ new.pc = "wave" => now >= old.wakeAt]_vars

\* a request of the second wave is in flight after the loop has slept
C24_Witness ==
  \E p \in Providers : \E id \in DOMAIN tstate[p] :
    /\ providerConfig(p).delayMs > 0
    /\ pstate[p].pc = "wave"
    /\ pstate[p].i > 0
    /\ now >= pstate[p].wakeAt
    /\ pstate[p].wakeAt > 0
    /\ tstate[p][id].st = "inflight"

\* the requests of the tasks ids that the provider's client has not settled
InFlight(ids, ts) == {id \in ids : ts[id].st = "inflight"}

\* C25: a batch has at most one outstanding provider request at any time, so
\* a provider never has more than concurrentBatches requests in flight.
C25_OneRequestPerBatch ==
  \A p \in Providers :
    /\ \A b \in 1..pstate[p].nb :
         Cardinality(InFlight(BatchIds(b, tstate[p]), tstate[p])) <= 1
    /\ Cardinality(InFlight(DOMAIN tstate[p], tstate[p])) <=
         providerConfig(p).concurrentBatches

\* C29: for every provider (openai, anthropic, google), a request that fails
\* with a rate-limit error is retried with backoff before its task is given
\* a sentinel result: a task that ended in a sentinel after a rate-limit
\* error had more than one request.
C29_EveryProviderRetries ==
  \A p \in Providers : \A id \in DOMAIN tstate[p] :
    LET tr == tstate[p][id]
    IN (isRateLimitError(tr.outcome) /\ tr.st = "done") =>
         /\ IsSentinel(tr.result)
         /\ tr.sent > 1

\* C27: a request that fails with an error not classified as a rate-limit
\* error is never retried: in the step of the failure the task is settled
\* with a sentinel result, each attempt of the task had exactly one request
\* (one request in all when the first attempt fails this way), and no
\* request of the task is dispatched afterwards.
C27_PlainErrorNotRetried ==
  [][\A p \in Providers : \A id \in DOMAIN tstate'[p] :
       LET new == tstate'[p][id]
       IN new.outcome = "error" =>
            /\ new.st = "done"
            /\ IsSentinel(new.result)
            /\ new.sent = new.attempt
            /\ (id \in DOMAIN tstate[p] /\ tstate[p][id].st = "done") =>
                 new = tstate[p][id]]_vars

\* the first request of a task of the retrying provider has failed with an
\* error that is not a rate-limit error
C27_Witness ==
  \E id \in DOMAIN tstate["anthropic"] :
    /\ tstate["anthropic"][id].outcome = "error"
    /\ tstate["anthropic"][id].attempt = 1
    /\ tstate["anthropic"][id].sent = 1
    /\ IsSentinel(tstate["anthropic"][id].result)

\* C28: a request that keeps failing with rate-limit errors is retried at
\* most rateLimitRetries (3) times; a retry is dispatched only after the
\* previous attempt has failed with a rate-limit error and its backoff delay
\* has elapsed, never while a request of the task is in flight; when the
\* ceiling is exhausted the task gets a sentinel result, and the run is
\* never rejected for it (only an abort rejects the run).
C28_RetryCeiling ==
  [][\A p \in Providers : \A id \in DOMAIN tstate'[p] :
       LET new == tstate'[p][id]
           started == id \in DOMAIN tstate[p]
           old == tstate[p][id]
       IN /\ new.attempt <= rateLimitRetries + 1
          /\ new.sent <= new.attempt
          /\ (started /\ new.sent > old.sent) =>
               /\ new.sent = old.sent + 1
               /\ old.st \in {"new", "waiting"}
               /\ old.st = "waiting" => now >= old.wakeAt
          /\ (started /\ new.attempt > old.attempt /\ old.attempt >= 1) =>
               /\ new.attempt = old.attempt + 1
               /\ old.st = "waiting" /\ old.wait = "backoff"
               /\ isRateLimitError(old.outcome)
               /\ now >= old.wakeAt
          /\ (new.st = "waiting" /\ new.wait = "backoff" /\
              (~started \/ old.st = "inflight")) =>
               /\ isRateLimitError(new.outcome)
               /\ new.wakeAt >= now + initialRetryDelay
          /\ (isRateLimitError(new.outcome) /\
              new.attempt = rateLimitRetries + 1 /\ new.st # "inflight") =>
               /\ new.st = "done"
               /\ IsSentinel(new.result)
          /\ engine' = "rejected" => aborted']_vars

\* the fourth request of a task has failed with a rate-limit error, and the
\* run has returned normally with the task's sentinel
C28_Witness ==
  /\ engine = "resolved"
  /\ \E id \in DOMAIN tstate["anthropic"] :
       LET tr == tstate["anthropic"][id]
       IN /\ tr.sent = rateLimitRetries + 1
          /\ isRateLimitError(tr.outcome)
          /\ IsSentinel(tr.result)
          /\ HasEntry(allResults, tr.gid, tr.entry)
          /\ IsSentinel(allResults[tr.gid][tr.entry])

\* the tasks of group g that belong to completed batches of provider p
Completed(p, g) ==
  {id \in DOMAIN tstate[p] :
     tstate[p][id].gid = g /\ BatchDone(id[1], tstate[p])}

\* C26: for each group whose provider has a key, the progress callback has
\* been invoked once per task of the group's completed batches, with the
\* values round(c / N * 100) for c = 1, 2, ... in that order (N records):
\* the values never decrease and never exceed 100; when an uncancelled run
\* has returned there were exactly N calls and the last value is 100.
C26_ProgressReports ==
  \A k \in DOMAIN groups :
    LET p == groups[k].provider
        g == groups[k].id
        N == Len(entries)
        calls == pstate[p].reported[g]
    IN (apiKey(p) /\ pstate[p].pc # "none") =>
         /\ Len(calls) = Cardinality(Completed(p, g))
         /\ pstate[p].groupProgress[g] = Len(calls)
         /\ \A c \in 1..Len(calls) :
              /\ 2 * N * calls[c] <= 200 * c + N
              /\ 200 * c + N < 2 * N * (calls[c] + 1)
              /\ calls[c] <= 100
              /\ c > 1 => calls[c - 1] <= calls[c]
         /\ (engine = "resolved" /\ ~aborted) =>
              /\ Len(calls) = N
              /\ calls[N] = 100

\* an uncancelled run over two records has returned; the two tasks of a
\* group were in one batch and were reported when it completed
C26_Witness ==
  /\ engine = "resolved"
  /\ ~aborted
  /\ Len(entries) = 2
  /\ \E p \in Providers : \E g \in DOMAIN pstate[p].reported :
       /\ pstate[p].reported[g] = <<50, 100>>
       /\ providerConfig(p).batchSize = 2
       /\ pstate[p].nb = 1

RECURSIVE Flatten(_)
Flatten(bs) == IF bs = <<>> THEN <<>> ELSE Head(bs) \o Flatten(Tail(bs))

\* the provider's wave loop was entered on its task list
Batched(p) == HasGroups(p) /\ apiKey(p) /\ pstate[p].pc # "none"

\* C22: createBatches partitions the provider's task list: the batches in
\* order concatenate to the task list, every batch but the last has exactly
\* batchSize tasks, the last has 1..batchSize, an empty list gives no batch;
\* the tasks the provider runs are exactly the tasks of these batches.
C22_BatchesPartition ==
  \A p \in Providers :
    Batched(p) =>
      LET size == providerConfig(p).batchSize
          items == allTasks(p)
          bs == createBatches(items, size)
      IN /\ Flatten(bs) = items
         /\ \A b \in 1..Len(bs) :
              /\ Len(bs[b]) \in 1..size
              /\ b < Len(bs) => Len(bs[b]) = size
         /\ createBatches(<<>>, size) = <<>>
         /\ pstate[p].nb = Len(bs)
         /\ DOMAIN tstate[p] =
              {id \in (1..Len(bs)) \X (1..size) : id[2] <= Len(bs[id[1]])}
         /\ \A id \in DOMAIN tstate[p] :
              /\ tstate[p][id].entry = bs[id[1]][id[2]].entry
              /\ tstate[p][id].gid = bs[id[1]][id[2]].group.id

\* a provider has completed a task of a task list cut into two batches
C22_Witness ==
  \E p \in Providers :
    /\ Batched(p)
    /\ providerConfig(p).batchSize = 2
    /\ pstate[p].nb = 2
    /\ \E id \in DOMAIN tstate[p] : tstate[p][id].st = "done"

\* C36: at every instant of a run the requests in flight for one provider
\* are at most concurrentBatches * batchSize, and each (record, group) task
\* is handed to provider.translate exactly once per run: never more than
\* once, once as soon as its wave has started, and there is one task per
\* pair of a record and a group of the provider.
C36_BoundedInFlightHandedOnce ==
  \A p \in Providers :
    LET ts == tstate[p]
        cfg == providerConfig(p)
    IN /\ Cardinality(InFlight(DOMAIN ts, ts)) <=
            cfg.concurrentBatches * cfg.batchSize
       /\ \A id \in DOMAIN ts :
            /\ ts[id].handed <= 1
            /\ ts[id].handed = 1 <=> ts[id].st # "new"
            /\ (engine = "resolved" \/ pstate[p].pc = "done") =>
                 ts[id].handed = 1
       /\ Batched(p) =>
            \A k \in DOMAIN groups, e \in DOMAIN entries :
              groups[k].provider = p =>
                Cardinality({id \in DOMAIN ts :
                               /\ ts[id].gid = groups[k].id
                               /\ ts[id].entry = entries[e]}) = 1

\* a provider has concurrentBatches * batchSize = 4 requests in flight
C36_Witness ==
  \E p \in Providers :
    /\ providerConfig(p).concurrentBatches = 2
    /\ providerConfig(p).batchSize = 2
    /\ Cardinality(InFlight(DOMAIN tstate[p], tstate[p])) = 4

\* C37: processGroups terminates. No task is ever sent more than
\* rateLimitRetries + 1 = 4 times, and when every request is eventually
\* settled and every timer fires, the call eventually resolves or rejects.
C37_Terminates ==
  /\ [](\A p \in Providers : \A id \in DOMAIN tstate[p] :
          tstate[p][id].sent <= rateLimitRetries + 1)
  /\ <>(engine \in {"resolved", "rejected"})

\* a run of two batches in two waves with a delay between them resolved
\* after one task was sent four times
C37_Witness ==
  /\ engine = "resolved"
  /\ Len(entries) = 2
  /\ options.anthropic.batchSize = 1
  /\ options.anthropic.concurrentBatches = 1
  /\ options.anthropic.delayMs > 0
  /\ \E id \in DOMAIN tstate["anthropic"] :
        tstate["anthropic"][id].sent = rateLimitRetries + 1

---------------------------------------------------------------------------
(* A TokenRateLimiter used on its own (test-rate-limiting-ts.ts): usages   *)
(* are recorded, the clock advances, and the limiter is queried.           *)

IdleOptions ==
  [openaiKey |-> FALSE, anthropicKey |-> FALSE, googleKey |-> FALSE,
   openai |-> [batchSize |-> 1, concurrentBatches |-> 1, delayMs |-> 0],
   anthropic |-> [batchSize |-> 1, concurrentBatches |-> 1, delayMs |-> 0],
   google |-> [batchSize |-> 1, concurrentBatches |-> 1, delayMs |-> 0]]

\* no engine run
EngineUnused ==
  /\ entries = <<>>
  /\ groups = <<>>
  /\ options = IdleOptions
  /\ aborted = FALSE
  /\ engine = "unused"
  /\ pstate = [p \in Providers |-> IdlePs]
  /\ tstate = [p \in Providers |-> EmptyMap]
  /\ allResults = EmptyMap
  /\ dispatched = {}
  /\ failures = 0
  /\ stream = NoStream

\* new TokenRateLimiter(maxTokensPerMinute)
InitLimiter ==
  /\ EngineUnused
  /\ RetryUnused
  /\ BatchUnused
  /\ RouteUnused
  /\ ParseUnused
  /\ BackoffUnused
  /\ now = 0
  /\ tokenUsage = <<>>
  /\ maxTokensPerMinute \in 1..MaxBudget
  /\ usageHistory = <<>>
  /\ probe = NoProbe
  /\ advances = 0
  /\ checked = TRUE

\* rateLimiter.recordUsage(tokens)
RecordUsage(tokens) ==
  /\ Len(usageHistory) < MaxRecords
  /\ tokenUsage' = recordUsage(tokenUsage, tokens, now)
  /\ usageHistory' = Append(usageHistory,
                            [timestamp |-> now, tokens |-> tokens])
  /\ probe' = [probe EXCEPT !.valid = FALSE, !.asked = FALSE,
                            !.percentage = 0]
  /\ checked' = (checked /\ probe.valid /\ probe.can /\ probe.n = tokens)
  /\ UNCHANGED <<notLimiter, now, maxTokensPerMinute, advances>>

\* rateLimiter.canMakeRequest(n) and rateLimiter.getRequiredDelay(n), called
\* at the same instant
Query(n) ==
  /\ tokenUsage' = cleanOldEntries(tokenUsage, now)
  /\ probe' = [valid |-> TRUE, n |-> n, at |-> now,
               can |-> canMakeRequest(tokenUsage, n, maxTokensPerMinute, now),
               delay |-> getRequiredDelay(tokenUsage, n, maxTokensPerMinute, now),
               asked |-> FALSE, percentage |-> 0]
  /\ UNCHANGED <<notLimiter, now, maxTokensPerMinute, usageHistory, advances,
                 checked>>

\* Math.round((currentUsage / this.maxTokens) * 100), after cleanOldEntries
getUsagePercentage(log, maxTokens, t) ==
  round(SumTokens(cleanOldEntries(log, t)), maxTokens)

\* rateLimiter.getUsagePercentage()
GetUsagePercentage ==
  /\ tokenUsage' = cleanOldEntries(tokenUsage, now)
  /\ probe' = [probe EXCEPT !.asked = TRUE,
                 !.percentage = getUsagePercentage(tokenUsage,
                                                   maxTokensPerMinute, now)]
  /\ UNCHANGED <<notLimiter, now, maxTokensPerMinute, usageHistory, advances,
                 checked>>

\* the caller waits d milliseconds
Advance(d) ==
  /\ advances < MaxAdvances
  /\ d > 0
  /\ now' = now + d
  /\ advances' = advances + 1
  /\ UNCHANGED <<notLimiter, tokenUsage, maxTokensPerMinute, usageHistory,
                 probe, checked>>

NextLimiter ==
  \/ \E tokens \in 1..MaxBudget : RecordUsage(tokens)
  \/ \E n \in 0..(maxTokensPerMinute + 1) : Query(n)
  \/ GetUsagePercentage
  \/ \E d \in {1, windowMs - 1, probe.delay} : Advance(d)

SpecLimiter == InitLimiter /\ [][NextLimiter]_vars

\* tokens of the recorded usages that are less than windowMs old at time t
WindowSum(h, t) ==
  SumTokens(SelectSeq(h, LAMBDA e : t - e.timestamp < windowMs))

\* C6: if canMakeRequest(n) was false for some n <= maxTokensPerMinute and nothing
\* was recorded since, then once getRequiredDelay(n) has elapsed
\* canMakeRequest(n) is true; and with the window's usages summing to
\* exactly maxTokensPerMinute, canMakeRequest(1) is false.
C6_DelayMakesRoom ==
  /\ (probe.valid /\ ~probe.can /\ probe.n <= maxTokensPerMinute
        /\ now >= probe.at + probe.delay) =>
       canMakeRequest(tokenUsage, probe.n, maxTokensPerMinute, now)
  /\ WindowSum(usageHistory, now) = maxTokensPerMinute =>
       ~canMakeRequest(tokenUsage, 1, maxTokensPerMinute, now)

\* C6 witness: usages summing to exactly the budget were recorded at two
\* instants, canMakeRequest(1) was false, the caller waited exactly
\* getRequiredDelay(1), and canMakeRequest(1) is true
C6_Witness ==
  /\ probe.valid /\ ~probe.can /\ probe.n = 1 /\ probe.delay > 0
  /\ now = probe.at + probe.delay
  /\ Len(usageHistory) >= 2
  /\ usageHistory[1].timestamp < usageHistory[2].timestamp
  /\ SumTokens(usageHistory) = maxTokensPerMinute
  /\ WindowSum(usageHistory, probe.at) = maxTokensPerMinute
  /\ canMakeRequest(tokenUsage, 1, maxTokensPerMinute, now)

\* C7: canMakeRequest(n) is true iff the tokens recorded inside the window
\* plus n are at most maxTokensPerMinute, and getRequiredDelay(n) is 0 iff
\* canMakeRequest(n) is true at the same instant.
C7_CanProceedIffRoom ==
  probe.valid =>
    /\ probe.can <=> (WindowSum(usageHistory, probe.at) + probe.n <= maxTokensPerMinute)
    /\ (probe.delay = 0) <=> probe.can

\* C7 witness: a query answered after a recorded usage had aged out of the
\* window while another was still inside it, and the answer was 'no'
C7_Witness ==
  /\ probe.valid /\ ~probe.can /\ probe.delay > 0
  /\ now = probe.at
  /\ tokenUsage # <<>>
  /\ Len(usageHistory) > Len(tokenUsage)

\* the usage log that holds exactly the recorded usages younger than
\* windowMs at time t
Pruned(h, t) == SelectSeq(h, LAMBDA e : e.timestamp > t - windowMs)

\* C31: after any call of canMakeRequest, getRequiredDelay, recordUsage or
\* getUsagePercentage made at time t, every entry remaining in the usage log
\* has a timestamp strictly greater than t - 60000, and no younger entry
\* was removed: the log is the recorded usages younger than the window.
C31_LogPrunedOnEveryCall ==
  [][now' = now =>
       /\ \A k \in DOMAIN tokenUsage' :
            tokenUsage'[k].timestamp > now - 60000
       /\ tokenUsage' = Pruned(usageHistory', now)]_vars

\* a call has removed an entry exactly one window old and kept a younger one
C31_Witness ==
  /\ Len(usageHistory) = 2
  /\ Len(tokenUsage) = 1
  /\ usageHistory[1].timestamp = now - windowMs
  /\ tokenUsage[1] = usageHistory[2]

\* C32: getUsagePercentage returns a value between 0 and 100 inclusive,
\* after any sequence of recordUsage calls.
C32_PercentageInRange ==
  probe.asked => probe.percentage \in 0..100

\* a log of k usages of 15000 tokens recorded at time 0
FillLog(k) == [i \in 1..k |-> [timestamp |-> 0, tokens |-> 15000]]

\* C35: if every recordUsage(n) directly follows a canMakeRequest(n) that
\* returned true on the same limiter, the usage of the window never exceeds
\* maxTokens; with a budget of 200000 and requests of 15000 tokens, 13
\* requests are accepted and the 14th is the first one refused.
C35_CheckedUsageWithinBudget ==
  /\ checked =>
       /\ WindowSum(usageHistory, now) <= maxTokensPerMinute
       /\ SumTokens(cleanOldEntries(tokenUsage, now)) <= maxTokensPerMinute
  /\ \A k \in 0..13 :
       canMakeRequest(FillLog(k), 15000, 200000, 0) <=> k < 13

\* two checked usages have filled the budget and the next request is refused
C35_Witness ==
  /\ checked
  /\ Len(usageHistory) = 2
  /\ WindowSum(usageHistory, now) = maxTokensPerMinute
  /\ probe.valid /\ ~probe.can /\ probe.n = 1

---------------------------------------------------------------------------
(* The retry cycle: the page's startTranslation chooses the entries, the   *)
(* translate-progress route runs the engine on them and merges the new     *)
(* rows into the previous results, the page stores the merged table.       *)

ColumnNames == <<"Spanish", "French", "German">>

\* a row of the CSV: key and English text
Entry(k) == [key |-> k, english |-> <<"en", k>>]

Table(rows) == [present |-> TRUE, entries |-> rows]

RowRanges ==
  {NoRange} \cup
  {r \in [startRow : 1..MaxRows, endRow : 1..MaxRows] :
     r.startRow <= r.endRow}

\* csvData.slice(startRow - 1, endRow)
slice(rows, range) ==
  IF range = NoRange THEN rows
  ELSE SubSeq(rows, range.startRow, Min(range.endRow, Len(rows)))

\* the predicate of the retry filter: some group has no usable translation
needsRetry(entry, table) ==
  \E g \in DOMAIN pageGroups :
    LET found == SelectSeq(table.entries, LAMBDA e : e.key = entry.key)
    IN IF found = <<>> THEN TRUE
       ELSE LET cell == Head(found).cols[pageGroups[g].columnName]
            IN \/ cell.translation = <<>>
               \/ cell.translation = <<"[ERROR]">>
               \/ cell.translation = entry.english
               \/ cell.category = <<"Error">>

\* what the engine can return for one task
RunOutcomes == {"X", "Y", "same", "error"}

RunResult(outcome, entry) ==
  IF outcome = "error"
  THEN Sentinel(ProviderPrefix("openai") \o ClientMessage("error"))
  ELSE [translation |-> IF outcome = "same" THEN entry.english
                        ELSE <<outcome>>,
        category |-> <<"Common">>, reasoning |-> <<"ok">>]

mergeTranslationResults(originalEntries, grps, results) ==
  [i \in DOMAIN originalEntries |->
     [key |-> originalEntries[i].key,
      english |-> originalEntries[i].english,
      cols |-> [c \in {grps[g].columnName : g \in DOMAIN grps} |->
                  LET g == CHOOSE x \in DOMAIN grps : grps[x].columnName = c
                      groupResults == results[grps[g].id]
                  IN IF originalEntries[i].key \in DOMAIN groupResults
                     THEN groupResults[originalEntries[i].key]
                     ELSE NoResult]]]

\* Map.set(entry.key, entry) on a Map kept in insertion order
mapSet(rows, row) ==
  IF \E i \in DOMAIN rows : rows[i].key = row.key
  THEN [i \in DOMAIN rows |-> IF rows[i].key = row.key THEN row ELSE rows[i]]
  ELSE Append(rows, row)

RECURSIVE setAll(_, _)
\* rows.forEach(entry => map.set(entry.key, entry))
setAll(map, rows) ==
  IF rows = <<>> THEN map ELSE setAll(mapSet(map, Head(rows)), Tail(rows))

\* mutant of retryMerge: the previous rows are written last
retryMerge_PriorWins(previousResults, results) ==
  Table(setAll(setAll(<<>>, results.entries), previousResults.entries))

\* the route's merge with previous results
retryMerge(previousResults, results) ==
  IF previousResults.present
  THEN Table(setAll(setAll(<<>>, previousResults.entries), results.entries))
  ELSE results

\* the messages of the page and of the route
NoEntriesFound == "No entries with errors or missing translations found"

TranslationFailed == "Translation failed"

\* an event the route enqueues, as the text data: {json}
Event(type, error, results) ==
  [type |-> type, error |-> error, results |-> results]

\* the blank line that ends every event the route enqueues
Separator == Event("blank line", "", NoTable)

\* buffer.split with the last piece popped: the complete lines of the
\* buffer that hold an event, and what stays in the buffer
completeLines(buffer) ==
  LET seps == {i \in DOMAIN buffer : buffer[i] = Separator}
      last == IF seps = {} THEN 0
              ELSE CHOOSE i \in seps : \A j \in seps : j <= i
  IN [lines |-> SelectSeq(SubSeq(buffer, 1, last),
                          LAMBDA x : x # Separator),
      buffer |-> SubSeq(buffer, last + 1, Len(buffer))]

\* the switch on data.type inside the read loop; the Error thrown for an
\* 'error' event is caught by the try around the switch, which logs it
onEvent(st, data) ==
  IF data.type = "complete"
  THEN [st EXCEPT !.status = "completed", !.results = data.results]
  ELSE st

RECURSIVE onEvents(_, _)
onEvents(st, lines) ==
  IF lines = <<>> THEN st
  ELSE onEvents(onEvent(st, Head(lines)), Tail(lines))

\* the switch on what remains in the buffer when the stream is done
onRemainder(st, buffer) ==
  IF buffer = <<>> THEN st
  ELSE LET data == Head(buffer)
       IN IF data.type = "complete"
          THEN [st EXCEPT !.status = "completed", !.results = data.results]
          ELSE IF data.type = "error"
          THEN [st EXCEPT !.status = "failed", !.error = data.error]
          ELSE st

\* the read loop of startTranslation on a stream whose text arrives as the
\* chunks text[1..cut] and text[cut+1..]
readStream(text, cut, pg, results) ==
  LET st0 == [error |-> pg.error, status |-> pg.status, results |-> results]
      c1 == completeLines(SubSeq(text, 1, cut))
      st1 == onEvents(st0, c1.lines)
      c2 == completeLines(c1.buffer \o SubSeq(text, cut + 1, Len(text)))
      st2 == onEvents(st1, c2.lines)
  IN onRemainder(st2, c2.buffer)

\* the tasks of the engine run that have no result yet, in task order
Unanswered ==
  {t \in (DOMAIN pageGroups) \X (DOMAIN request.entries) :
     request.entries[t[2]].key \notin DOMAIN runResults[pageGroups[t[1]].id]}

InitRetry ==
  /\ EngineUnused
  /\ LimiterUnused
  /\ BatchUnused
  /\ RouteUnused
  /\ ParseUnused
  /\ BackoffUnused
  /\ now = 0
  /\ csvData \in {[i \in 1..n |-> Entry(KeyNames[i])] : n \in 1..MaxRows}
  /\ pageGroups \in {[i \in 1..n |-> [id |-> GroupIds[i],
                                      columnName |-> ColumnNames[i]]] :
                       n \in 1..MaxColumns}
  /\ translationResults = NoTable
  /\ request = NoRequest
  /\ runResults = EmptyMap
  /\ response = NoResponse
  /\ phase = "ready"
  /\ page = NoPage
  /\ cycles = 0

\* startTranslation up to its fetch of /api/translate-progress
StartTranslation(onlyRetryErrors, selectedRowRange) ==
  /\ phase = "ready"
  /\ cycles < MaxCycles
  /\ selectedRowRange.endRow <= Len(csvData)
  /\ LET ranged == slice(csvData, selectedRowRange)
         entriesToTranslate ==
           IF onlyRetryErrors /\ translationResults.present
           THEN SelectSeq(ranged,
                          LAMBDA e : needsRetry(e, translationResults))
           ELSE ranged
     IN /\ translationResults' = NoTable
        /\ IF entriesToTranslate = <<>>
           THEN /\ cycles' = cycles + 1
                /\ page' = [error |-> NoEntriesFound, status |-> "processing"]
                /\ UNCHANGED <<request, runResults, phase>>
           ELSE /\ page' = [error |-> "", status |-> "processing"]
                /\ request' =
                     [entries |-> entriesToTranslate,
                      previousResults |-> IF onlyRetryErrors
                                          THEN translationResults
                                          ELSE NoTable,
                      rowRange |-> selectedRowRange]
                /\ runResults' = [id \in {pageGroups[g].id :
                                            g \in DOMAIN pageGroups} |->
                                    EmptyMap]
                /\ phase' = "running"
                /\ UNCHANGED cycles
  /\ UNCHANGED <<notRetry, csvData, pageGroups, response>>

\* the engine settles one task of the run
TranslateTask(outcome) ==
  /\ phase = "running"
  /\ Unanswered # {}
  /\ LET t == CHOOSE u \in Unanswered :
                \A v \in Unanswered :
                  u[1] < v[1] \/ (u[1] = v[1] /\ u[2] <= v[2])
         id == pageGroups[t[1]].id
         entry == request.entries[t[2]]
     IN runResults' = [runResults EXCEPT ![id] =
                         MapSet(@, entry.key, RunResult(outcome, entry))]
  /\ UNCHANGED <<notRetry, csvData, pageGroups, translationResults, request,
                 response, phase, page, cycles>>

\* processGroups resolves: the route merges and sends 'complete'; the page
\* reads the stream, which arrives in two chunks cut at cut, and stores the
\* results
Complete(cut) ==
  /\ phase = "running"
  /\ Unanswered = {}
  /\ LET results == Table(mergeTranslationResults(request.entries,
                                                  pageGroups, runResults))
         finalResults == retryMerge(request.previousResults, results)
         text == <<Event("start", "", NoTable), Separator,
                   Event("complete", "", finalResults), Separator>>
         read == readStream(text, cut, page, translationResults)
     IN /\ response' = [type |-> "complete",
                        previous |-> request.previousResults,
                        fresh |-> results.entries,
                        results |-> finalResults]
        /\ translationResults' = read.results
        /\ page' = [error |-> read.error, status |-> read.status]
  /\ phase' = "ready"
  /\ cycles' = cycles + 1
  /\ UNCHANGED <<notRetry, csvData, pageGroups, request, runResults>>

\* processGroups rejects: the route sends 'error'; the page reads the
\* stream, which arrives in two chunks cut at cut
Fail(cut) ==
  /\ phase = "running"
  /\ LET text == <<Event("start", "", NoTable), Separator,
                   Event("error", TranslationFailed, NoTable), Separator>>
         read == readStream(text, cut, page, translationResults)
     IN /\ response' = [type |-> "error",
                        previous |-> request.previousResults,
                        fresh |-> <<>>, results |-> NoTable]
        /\ translationResults' = read.results
        /\ page' = [error |-> read.error, status |-> read.status]
  /\ phase' = "ready"
  /\ cycles' = cycles + 1
  /\ UNCHANGED <<notRetry, csvData, pageGroups, request, runResults>>

\* where the stream of a run is cut into two chunks: before the blank line
\* that ends the last event, or after it (the stream arrives as one chunk)
Cuts == {3, 4}

NextRetry ==
  \/ \E o \in BOOLEAN, r \in RowRanges : StartTranslation(o, r)
  \/ \E outcome \in RunOutcomes : TranslateTask(outcome)
  \/ \E cut \in Cuts : Complete(cut)
  \/ \E cut \in Cuts : Fail(cut)

SpecRetry == InitRetry /\ [][NextRetry]_vars

Keys(rows) == {rows[i].key : i \in DOMAIN rows}

\* a cell the retry filter counts as translated
Successful(row, c) ==
  /\ row.cols[c].translation \notin {<<>>, <<"[ERROR]">>, row.english}
  /\ row.cols[c].category # <<"Error">>

\* C4: the merged result has exactly one row per key of the previous and
\* the new run's keys; a key absent from the new run keeps its previous
\* row; a key of the new run carries the new run's row.
C4_RetryMergeOverride ==
  (response.type = "complete" /\ response.previous.present) =>
    LET prior == response.previous.entries
        fresh == response.fresh
        final == response.results.entries
    IN /\ Keys(final) = Keys(prior) \cup Keys(fresh)
       /\ \A i, j \in DOMAIN final : final[i].key = final[j].key => i = j
       /\ \A i \in DOMAIN prior :
            prior[i].key \notin Keys(fresh) =>
              \E j \in DOMAIN final : final[j] = prior[i]
       /\ \A i \in DOMAIN fresh : \E j \in DOMAIN final : final[j] = fresh[i]

\* C4 witness: previous {a: X, b: [ERROR]}, the retry re-ran only b and got
\* Y, and the merged result is {a: X, b: Y}
C4_Witness ==
  /\ response.type = "complete" /\ response.previous.present
  /\ Len(response.previous.entries) = 2
  /\ Len(response.fresh) = 1
  /\ Len(response.results.entries) = 2
  /\ response.previous.entries[1].cols["Spanish"].translation = <<"X">>
  /\ response.previous.entries[2].cols["Spanish"].translation = <<"[ERROR]">>
  /\ response.fresh[1].key = response.previous.entries[2].key
  /\ response.results.entries[1] = response.previous.entries[1]
  /\ response.results.entries[2].cols["Spanish"].translation = <<"Y">>

\* C5: after a retry, every cell that held a successful translation in the
\* previous results holds the same value in the merged results.
C5_RetryKeepsSuccesses ==
  (response.type = "complete" /\ response.previous.present) =>
    \A i \in DOMAIN response.previous.entries :
      \A j \in DOMAIN response.results.entries :
        LET old == response.previous.entries[i]
            new == response.results.entries[j]
        IN old.key = new.key =>
             \A c \in DOMAIN old.cols :
               Successful(old, c) => new.cols[c] = old.cols[c]

\* the previous results hold no result, or the sentinel, for the record in
\* the column of some group of the page
FailedBefore(entry, table) ==
  \E g \in DOMAIN pageGroups :
     \/ entry.key \notin Keys(table.entries)
     \/ \E i \in DOMAIN table.entries :
          /\ table.entries[i].key = entry.key
          /\ LET cell == table.entries[i].cols[pageGroups[g].columnName]
             IN cell = NoResult \/ IsSentinel(cell)

\* C34: a retry request ('only retry errors' with previous results) carries
\* exactly the records of the selected rows that have, for at least one
\* group, an absent or a sentinel result in the previous results.
C34_RetrySendsExactlyFailures ==
  (phase = "running" /\ request.previousResults.present) =>
    LET ranged == slice(csvData, request.rowRange)
    IN request.entries =
         SelectSeq(ranged,
                   LAMBDA e : FailedBefore(e, request.previousResults))

\* C38: when the stream of a run delivers an 'error' event, the page has
\* the error set and no group in status 'processing' after the stream ended.
C38_ErrorEventShown ==
  [][(phase = "running" /\ response'.type = "error") =>
       /\ page'.error # ""
       /\ page'.status # "processing"]_vars

\* C39: a retry run that ends without a 'complete' event leaves the page
\* with the results of the previous run.
C39_FailedRetryKeepsResults ==
  [][(/\ phase = "running"
      /\ request.previousResults.present
      /\ response'.type = "error") =>
       translationResults' = request.previousResults]_vars

---------------------------------------------------------------------------
(* processSingleGroupWithConcurrentBatches for one group of the OpenAI     *)
(* provider: waves of processBatch calls, each one translateBatch request  *)
(* with a fallback to one translate request per entry.                     *)

\* what the OpenAI client can answer to a batch request: a response whose
\* parsed rows cover the keys in parsed, or an error
BatchReplies(keys) ==
  {[ok |-> TRUE, parsed |-> S] : S \in SUBSET keys} \cup
  {[ok |-> FALSE, parsed |-> {}]}

\* OpenAIProvider.translateBatch, given the client's answer: what it returns
\* and whether it throws
translateBatch(keys, reply) ==
  [threw |-> FALSE,
   results |->
     IF reply.ok
     THEN [k \in keys |->
             IF k \in reply.parsed THEN Translated("g1", k)
             ELSE Sentinel(<<"Missing from batch response">>)]
     ELSE [k \in keys |->
             Sentinel(<<"Batch translation failed: ">> \o
                      ClientMessage("error"))]]

\* the catch branch of processBatch for one entry, given the client's answer
\* to provider.translate
translateIndividually(key, reply) ==
  IF reply.ok THEN Translated("g1", key)
  ELSE Sentinel(ProviderPrefix("openai") \o ClientMessage("error"))

BatchKeys(b) == {batchState[b].batch[k] : k \in DOMAIN batchState[b].batch}

\* batches.slice(i, i + config.concurrentBatches), as batch numbers
SingleWave(i) ==
  (i + 1)..Min(i + batchConfig.concurrentBatches, Len(batchState))

\* the processBatch calls of the wave starting at i, up to their await of
\* provider.translateBatch
launchWave(bs, i) ==
  [b \in DOMAIN bs |->
     IF b \in SingleWave(i) THEN [bs[b] EXCEPT !.pc = "batch"] ELSE bs[b]]

NewBatch(batch) ==
  [batch |-> batch, pc |-> "idle", batchResults |-> EmptyMap,
   pending |-> {}, batchFailed |-> FALSE, individual |-> {},
   individualFailed |-> {}]

InitBatch ==
  /\ EngineUnused
  /\ LimiterUnused
  /\ RetryUnused
  /\ RouteUnused
  /\ ParseUnused
  /\ BackoffUnused
  /\ now = 0
  /\ batchEntries \in {SubSeq(KeyNames, 1, n) : n \in 1..(MaxEntries + 1)}
  /\ batchConfig \in BatchConfigs
  /\ batchPc = "start"
  /\ waveStart = 0
  /\ batchState = <<>>
  /\ singleResults = EmptyMap
  /\ processedCount = 0
  /\ batchAborted \in BOOLEAN

\* processSingleGroupWithConcurrentBatches from its call to its first await
StartSingleGroup ==
  /\ batchPc = "start"
  /\ IF batchAborted
     THEN /\ batchPc' = "rejected"
          /\ UNCHANGED batchState
     ELSE LET batches == createBatches(batchEntries, batchConfig.batchSize)
              bs == [b \in DOMAIN batches |-> NewBatch(batches[b])]
          IN /\ batchState' =
                  [b \in DOMAIN bs |->
                     IF b <= batchConfig.concurrentBatches
                     THEN [bs[b] EXCEPT !.pc = "batch"] ELSE bs[b]]
             /\ batchPc' = "wave"
  /\ UNCHANGED <<notBatch, batchEntries, batchConfig, waveStart,
                 singleResults, processedCount, batchAborted>>

\* the OpenAI client settles the pending request of batch b: the batch
\* request, or the individual request for key; everything that then runs up
\* to the next await is part of the step
ClientRespond(b, key, reply) ==
  /\ batchPc = "wave"
  /\ b \in DOMAIN batchState
  /\ \/ /\ batchState[b].pc = "batch"
        /\ key = batchState[b].batch[1]
        /\ reply \in BatchReplies(BatchKeys(b))
     \/ /\ batchState[b].pc = "individual"
        /\ key \in batchState[b].pending
        /\ reply \in BatchReplies({})
  /\ LET st == batchState[b]
         batchResponse == translateBatch(BatchKeys(b), reply)
         after ==
           IF st.pc = "batch"
           THEN IF batchResponse.threw
                THEN [st EXCEPT !.pc = "individual",
                                !.pending = BatchKeys(b),
                                !.batchFailed = TRUE,
                                !.individual = BatchKeys(b)]
                ELSE [st EXCEPT !.pc = "done",
                                !.batchFailed = ~reply.ok,
                                !.batchResults = batchResponse.results]
           ELSE [st EXCEPT
                   !.pc = IF st.pending = {key} THEN "done" ELSE "individual",
                   !.pending = @ \ {key},
                   !.individualFailed =
                      IF reply.ok THEN @ ELSE @ \cup {key},
                   !.batchResults =
                      MapSet(@, key, translateIndividually(key, reply))]
         bs == [batchState EXCEPT ![b] = after]
         finished == after.pc = "done"
         waveDone == \A x \in SingleWave(waveStart) : bs[x].pc = "done"
         next == waveStart + batchConfig.concurrentBatches
         more == next < Len(batchState)
     IN /\ singleResults' =
             IF finished
             THEN [k \in (DOMAIN singleResults) \cup BatchKeys(b) |->
                     IF k \in BatchKeys(b) THEN after.batchResults[k]
                     ELSE singleResults[k]]
             ELSE singleResults
        /\ processedCount' =
             IF finished THEN processedCount + Len(st.batch)
             ELSE processedCount
        /\ IF ~waveDone
           THEN /\ batchState' = bs
                /\ UNCHANGED <<batchPc, waveStart>>
           ELSE IF more /\ batchConfig.delayMs > 0
           THEN /\ batchState' = bs
                /\ batchPc' = IF batchAborted THEN "rejected" ELSE "delay"
                /\ UNCHANGED waveStart
           ELSE IF more
           THEN /\ waveStart' = next
                /\ batchPc' = IF batchAborted THEN "rejected" ELSE "wave"
                /\ batchState' = IF batchAborted THEN bs
                                 ELSE launchWave(bs, next)
           ELSE /\ batchState' = bs
                /\ batchPc' = "resolved"
                /\ UNCHANGED waveStart
  /\ UNCHANGED <<notBatch, batchEntries, batchConfig, batchAborted>>

\* the delay between two waves elapses
SingleDelayElapsed ==
  /\ batchPc = "delay"
  /\ waveStart' = waveStart + batchConfig.concurrentBatches
  /\ batchPc' = IF batchAborted THEN "rejected" ELSE "wave"
  /\ batchState' = IF batchAborted THEN batchState
                   ELSE launchWave(batchState,
                                   waveStart + batchConfig.concurrentBatches)
  /\ UNCHANGED <<notBatch, batchEntries, batchConfig, singleResults,
                 processedCount, batchAborted>>

\* abortController.abort() while the call is running
AbortSingleGroup ==
  /\ batchPc \in {"wave", "delay"}
  /\ ~batchAborted
  /\ batchAborted' = TRUE
  /\ UNCHANGED <<notBatch, batchEntries, batchConfig, batchPc, waveStart,
                 batchState, singleResults, processedCount>>

NextBatch ==
  \/ StartSingleGroup
  \/ \E b \in 1..(MaxEntries + 1), key \in Range(KeyNames),
        reply \in BatchReplies(Range(KeyNames)) : ClientRespond(b, key, reply)
  \/ SingleDelayElapsed
  \/ AbortSingleGroup

SpecBatch == InitBatch /\ [][NextBatch]_vars

\* C3: a batch whose batch request failed has every entry re-attempted
\* individually, and an entry of it holds a sentinel only if its individual
\* attempt failed too.
C3_NoLossDegradation ==
  \A b \in DOMAIN batchState :
    (batchState[b].pc = "done" /\ batchState[b].batchFailed) =>
      \A k \in BatchKeys(b) :
        /\ k \in batchState[b].individual
        /\ IsSentinel(batchState[b].batchResults[k]) =>
             k \in batchState[b].individualFailed

---------------------------------------------------------------------------
(* The translation routes: POST /api/translate-progress and                *)
(* POST /api/translate-parallel validate the request, construct the engine *)
(* and call processGroups.                                                 *)

Routes == {"translate-progress", "translate-parallel"}

\* the defaults of the ParallelTranslationEngine constructor
DefaultConfig(p) ==
  IF p = "anthropic"
  THEN [batchSize |-> 5, concurrentBatches |-> 2, delayMs |-> 2000]
  ELSE [batchSize |-> 5, concurrentBatches |-> 3, delayMs |-> 1000]

needs(p) == \E k \in DOMAIN groups : groups[k].provider = p

\* the validation of the route: the error it reports, or "ok"
validate(r) ==
  IF entries = <<>> THEN "No entries provided"
  ELSE IF groups = <<>> THEN "No translation groups provided"
  ELSE IF needs("openai") /\ ~env.openai
  THEN "OpenAI API key not configured on server"
  ELSE IF needs("anthropic") /\ ~env.anthropic
  THEN "Anthropic API key not configured on server"
  ELSE IF r = "translate-parallel" /\ needs("google") /\ ~env.google
  THEN "Google API key not configured on server"
  ELSE "ok"

\* the options object the route passes to new ParallelTranslationEngine,
\* after the constructor's defaults
engineOptions(r) ==
  IF r = "translate-progress"
  THEN [openaiKey |-> env.openai, anthropicKey |-> env.anthropic,
        googleKey |-> FALSE,
        openai |-> IF bodyConfig.given THEN bodyConfig.openai
                   ELSE DefaultConfig("openai"),
        anthropic |-> IF bodyConfig.given THEN bodyConfig.anthropic
                      ELSE DefaultConfig("anthropic"),
        google |-> DefaultConfig("google")]
  ELSE [openaiKey |-> env.openai, anthropicKey |-> env.anthropic,
        googleKey |-> env.google,
        openai |-> DefaultConfig("openai"),
        anthropic |-> DefaultConfig("anthropic"),
        google |-> DefaultConfig("google")]

InitRoute ==
  /\ LimiterUnused
  /\ RetryUnused
  /\ BatchUnused
  /\ ParseUnused
  /\ BackoffUnused
  /\ entries \in {SubSeq(KeyNames, 1, n) : n \in 0..MaxEntries}
  /\ groups \in {<<>>} \cup GroupLists
  /\ options = IdleOptions
  /\ aborted = FALSE
  /\ now = 0
  /\ engine = "idle"
  /\ pstate = [p \in Providers |-> IdlePs]
  /\ tstate = [p \in Providers |-> EmptyMap]
  /\ allResults = EmptyMap
  /\ dispatched = {}
  /\ failures = 0
  /\ stream = NoStream
  /\ route \in Routes
  /\ env \in [openai : BOOLEAN, anthropic : BOOLEAN, google : BOOLEAN]
  /\ bodyConfig \in
       {NoBodyConfig} \cup
       {[given |-> TRUE, openai |-> c, anthropic |-> c] :
          c \in {[batchSize |-> MaxBatchSize, concurrentBatches |-> 1,
                  delayMs |-> 0]}}
  /\ route = "translate-parallel" => bodyConfig = NoBodyConfig
  /\ routeReply = "none"

\* mutant of startStream: a failed validation does not return, and the
\* 'start' event follows the 'error' event
startStream_NoReturn(r) ==
  IF r # "translate-progress" THEN stream
  ELSE IF validate(r) # "ok"
  THEN safeEnqueue(safeEnqueue(stream, [type |-> "error"]),
                   [type |-> "start"])
  ELSE safeEnqueue(stream, [type |-> "start"])

\* the start callback of the translate-progress stream up to the call of
\* processGroups: a failed validation enqueues one 'error' event, closes
\* the stream and returns; otherwise the 'start' event is enqueued
startStream(r) ==
  IF r # "translate-progress" THEN stream
  ELSE IF validate(r) # "ok"
  THEN [safeEnqueue(stream, [type |-> "error"])
          EXCEPT !.isControllerClosed = TRUE]
  ELSE safeEnqueue(stream, [type |-> "start"])

\* POST: the request is validated; on success the engine is constructed
Post ==
  /\ routeReply = "none"
  /\ IF validate(route) # "ok"
     THEN /\ routeReply' = validate(route)
          /\ UNCHANGED options
     ELSE /\ routeReply' = "start"
          /\ options' = engineOptions(route)
  /\ stream' = startStream(route)
  /\ UNCHANGED <<entries, groups, aborted, now, engine, pstate, tstate,
                 allResults, dispatched, failures>>
  /\ UNCHANGED <<limiterVars, retryVars, batchVars, route, env, bodyConfig,
                 parseVars, backoffVars>>

\* the route calls engine.processGroups
RouteRuns ==
  /\ routeReply = "start"
  /\ ProcessGroups

\* the run goes on: requests settle, timers fire, the client disconnects
RunSteps ==
  /\ routeReply = "start"
  /\ \/ \E p \in Providers : \E id \in DOMAIN tstate[p] :
          \E outcome \in Outcomes(p) : Respond(p, id, outcome)
     \/ \E p \in Providers : \E id \in DOMAIN tstate[p] : WakeTask(p, id)
     \/ \E p \in Providers : WakeDelay(p)
     \/ Abort
     \/ Tick

NextRoute ==
  \/ Post
  \/ RouteRuns
  \/ RunSteps

SpecRoute == InitRoute /\ [][NextRoute]_vars

envKey(p) ==
  IF p = "openai" THEN env.openai
  ELSE IF p = "anthropic" THEN env.anthropic
  ELSE env.google

\* the request has no entries, no groups, or a group whose provider has no
\* API key on the server
InputError ==
  \/ entries = <<>>
  \/ groups = <<>>
  \/ \E k \in DOMAIN groups : ~envKey(groups[k].provider)

\* C14: for a request with an input error, each route answers with an
\* error and never starts the engine, so no request is dispatched.
C14_InputErrorsFailFirst ==
  (routeReply # "none" /\ InputError) =>
    /\ routeReply # "start"
    /\ engine = "idle"
    /\ \A p \in Providers : tstate[p] = EmptyMap

\* the types of the events enqueued on the stream, in order
EventTypes(st) == [k \in 1..Len(st.events) |-> st.events[k].type]

\* C21: for a request to the translate-progress route whose client stays
\* connected, the event stream is exactly one 'error' event when the input
\* validation fails; otherwise a 'start' event first, then 'progress'
\* events, then exactly one terminal event when processGroups has settled
\* ('complete' carrying the results, or 'error'), and no event after it.
C21_EventStream ==
  [][(route = "translate-progress" /\ ~aborted') =>
       LET types == EventTypes(stream')
           n == Len(types)
           settled == engine' \in {"resolved", "rejected"}
       IN /\ routeReply' = "none" => types = <<>>
          /\ (routeReply' # "none" /\ validate(route) # "ok") =>
               /\ types = <<"error">>
               /\ stream'.isControllerClosed
          /\ routeReply' = "start" =>
               /\ n >= 1 /\ types[1] = "start"
               /\ \A k \in 2..n :
                    \/ types[k] = "progress"
                    \/ k = n /\ settled /\ types[k] \in {"complete", "error"}
               /\ settled =>
                    /\ n >= 2
                    /\ types[n] \in {"complete", "error"}
                    /\ stream'.isControllerClosed
                    /\ types[n] = "complete" =>
                         /\ engine' = "resolved"
                         /\ stream'.events[n].results = allResults'
                         /\ \A k \in DOMAIN groups :
                              groups[k].id \in DOMAIN allResults'
          /\ Len(stream.events) <= n
          /\ SubSeq(stream'.events, 1, Len(stream.events)) = stream.events
          /\ stream.isControllerClosed => stream' = stream]_vars

\* a connected client has received 'start', two 'progress' events and
\* 'complete'
C21_Witness ==
  /\ route = "translate-progress"
  /\ ~aborted
  /\ EventTypes(stream) = <<"start", "progress", "progress", "complete">>

---------------------------------------------------------------------------
(* The run and the merged output *)

\* the result a settled task holds, as a function of its request's outcome
ResultOf(p, tr) ==
  IF tr.outcome = "ok" THEN Translated(tr.gid, tr.entry)
  ELSE Sentinel(ProviderPrefix(p) \o ClientMessage(tr.outcome))

\* the task of provider p for group g and record k
TaskOf(p, g, k) ==
  CHOOSE id \in DOMAIN tstate[p] :
    tstate[p][id].gid = g /\ tstate[p][id].entry = k

\* the result table computed from the outcomes alone
ExpectedTable ==
  [g \in {groups[k].id : k \in DOMAIN groups} |->
     LET p == groups[CHOOSE k \in DOMAIN groups : groups[k].id = g].provider
     IN IF ~apiKey(p) THEN EmptyMap
        ELSE [k \in Range(entries) |-> ResultOf(p, tstate[p][TaskOf(p, g, k)])]]

\* the merged output of processGroups for a result table
MergedOutput(res) ==
  mergeTranslationResults(
    [i \in DOMAIN entries |-> Entry(entries[i])],
    [k \in DOMAIN groups |-> [id |-> groups[k].id,
                              columnName |-> groups[k].id]],
    res)

\* C15: with unique record keys and group ids, the result table and the
\* merged output are determined by the outcomes of the requests alone,
\* whatever the order in which requests, batches and providers complete:
\* every entry of the table is the result of its own task, and the table of
\* a resolved run is the table computed from the outcomes.
C15_OrderIndependent ==
  /\ \A g \in DOMAIN allResults : \A k \in DOMAIN allResults[g] :
       \E p \in Providers : \E id \in DOMAIN tstate[p] :
         /\ tstate[p][id].gid = g /\ tstate[p][id].entry = k
         /\ tstate[p][id].st = "done"
         /\ allResults[g][k] = ResultOf(p, tstate[p][id])
  /\ engine = "resolved" =>
       /\ allResults = ExpectedTable
       /\ MergedOutput(allResults) = MergedOutput(ExpectedTable)

\* C15 witness: completion out of order: the second batch of the openai
\* wave has settled while the first is in flight, and another provider has
\* already delivered its groups to the table
C15_Witness ==
  /\ engine = "running"
  /\ pstate["openai"].pc = "wave"
  /\ \E id1, id2 \in DOMAIN tstate["openai"] :
       /\ id1[1] < id2[1]
       /\ tstate["openai"][id1].st = "inflight"
       /\ tstate["openai"][id2].st = "done"
  /\ \E p \in Providers \ {"openai"} :
       /\ pstate[p].pc = "done"
       /\ \E g \in DOMAIN pstate[p].groupResults :
            /\ g \in DOMAIN allResults
            /\ allResults[g] # EmptyMap

---------------------------------------------------------------------------
(* Recovering results from a model's answer: RobustCSVParser, the          *)
(* ResponseValidator and the providers' CSV parsers.                       *)
(*                                                                         *)
(* A text is a sequence of pieces.  A piece is a run of characters the     *)
(* parsers never cut: a word or phrase, a comma, a line break, a code      *)
(* fence.  No piece of the universe holds a quote character or leading or  *)
(* trailing blanks, so that parseCSVLine and Papa.parse both cut a line at *)
(* its commas and String.trim removes line breaks only.                    *)

NL == "\n"

Comma == ","

\* the three backquotes that open or close a code block
Fence == "[code fence]"

AckPhrase == "I'll output the four fields now: ..."

HereIs == "Here is the translation:"

Devanagari == "{settings, written in Devanagari}"

\* String.length of a piece
pieceLength(p) ==
  CASE p \in {NL, Comma, ".", "_"} -> 1
    [] p \in {"UI", "ok"} -> 2
    [] p \in {Fence, "Key"} -> 3
    [] p \in {"menu", "Menu", "Sure"} -> 4
    [] p \in {"settings", "Settings", "Category", Devanagari} -> 8
    [] p \in {"Reasoning", "Configure"} -> 9
    [] p = "Sorry" -> 5
    [] p = "Translation" -> 11
    [] p = "Cannot translate this" -> 21
    [] p = HereIs -> 24
    [] p = AckPhrase -> 36
    [] OTHER -> 7

RECURSIVE length(_)
length(t) == IF t = <<>> THEN 0 ELSE pieceLength(Head(t)) + length(Tail(t))

\* String.toLowerCase of a piece
lowerPiece(p) ==
  CASE p = "Menu" -> "menu"
    [] p = "Settings" -> "settings"
    [] p = "Sure" -> "sure"
    [] p = "Key" -> "key"
    [] p = "Translation" -> "translation"
    [] p = "Category" -> "category"
    [] p = "Reasoning" -> "reasoning"
    [] p = "Configure" -> "configure"
    [] p = "UI" -> "ui"
    [] p = "Sorry" -> "sorry"
    [] p = "Hindi" -> "hindi"
    [] p = "Spanish" -> "spanish"
    [] p = "Cannot translate this" -> "cannot translate this"
    [] p = AckPhrase -> "i'll output the four fields now: ..."
    [] p = HereIs -> "here is the translation:"
    [] OTHER -> p

toLowerCase(t) == [i \in DOMAIN t |-> lowerPiece(t[i])]

includes(t, p) == \E i \in DOMAIN t : t[i] = p

RECURSIVE trimStart(_)
trimStart(t) == IF t # <<>> /\ Head(t) = NL THEN trimStart(Tail(t)) ELSE t

RECURSIVE trimEnd(_)
trimEnd(t) ==
  IF t # <<>> /\ t[Len(t)] = NL THEN trimEnd(SubSeq(t, 1, Len(t) - 1)) ELSE t

trim(t) == trimEnd(trimStart(t))

\* String.split(sep): "" splits into [""]
RECURSIVE split(_, _)
split(t, sep) ==
  IF ~includes(t, sep) THEN <<t>>
  ELSE LET i == CHOOSE j \in DOMAIN t :
                   t[j] = sep /\ \A h \in 1..(j - 1) : t[h] # sep
       IN <<SubSeq(t, 1, i - 1)>> \o split(SubSeq(t, i + 1, Len(t)), sep)

\* Array.filter(line => line.trim()) on the lines of a text
nonBlank(ls) == SelectSeq(ls, LAMBDA l : trim(l) # <<>>)

\* Array.join(sep)
RECURSIVE join(_, _)
join(ts, sep) ==
  IF ts = <<>> THEN <<>>
  ELSE IF Len(ts) = 1 THEN ts[1]
  ELSE ts[1] \o <<sep>> \o join(Tail(ts), sep)

\* fields[i] || fallback
orElse(fields, i, fallback) ==
  IF i \in DOMAIN fields /\ fields[i] # <<>> THEN fields[i] ELSE fallback

TranslateResponse(translation, category, reasoning) ==
  [translation |-> translation, category |-> category,
   reasoning |-> reasoning]


\* the pieces matching /^(and |then |next |now |yes, )?(i'll|i will|i would|
\* i can|let me) (output|return|provide|give you|format|translate)/i at
\* their start, and so /\b(i'll|i will|let me|i would) (output|...)/i
StartsWithPromise == {AckPhrase}

\* the pieces matching /^(sure|okay|yes|alright)/i
SureWords == {"Sure"}

\* the pieces starting with i'll, i will, here is or here are
StartsWithIllOrHere == {AckPhrase, HereIs}

\* the pieces matching /\b(output|return|provide) (the |exactly )?(four|4)
\* (csv )?(fields?|columns?)/i
OutputsFourFields == {AckPhrase}

\* the pieces matching /\bformat you (specified|requested|asked for)/i
FormatYouSpecified == {}

\* the pieces matching /^(yes, )?here (is|are) (the|your) translation/i
StartsWithHereIs == {HereIs}

\* the pieces matching /\b(Key|Category|Reasoning|Translation|CSV|fields?)\b/i
StructureWords == {"Key", "Category", "Reasoning", "Translation", AckPhrase,
                   HereIs}

\* the pieces in which translation, translated or result is followed by
\* nothing but colons and blanks
EndsWithResultWord == {"Translation", HereIs}

\* the lowered pieces that include 'translate' or 'csv'
MentionsTranslate == {"cannot translate this"}

\* the piece that follows a leading sure-word, an optional comma and blanks
afterSure(t) ==
  LET rest == IF Len(t) >= 2 /\ t[2] = Comma
              THEN SubSeq(t, 3, Len(t)) ELSE Tail(t)
      text == trimStart(rest)
  IN IF text = <<>> THEN "" ELSE Head(text)

\* parseWithFallbacks, acknowledgmentPatterns tested on response.trim()
acknowledgment(resp) ==
  LET t == trim(resp)
  IN \/ t # <<>> /\ Head(t) \in StartsWithPromise
     \/ t # <<>> /\ Head(t) \in SureWords
                 /\ afterSure(t) \in StartsWithIllOrHere
     \/ \E i \in DOMAIN t : t[i] \in OutputsFourFields
     \/ \E i \in DOMAIN t : t[i] \in FormatYouSpecified
     \/ t # <<>> /\ Head(t) \in StartsWithHereIs

AckSentinel ==
  TranslateResponse(<<"[ERROR]">>, <<"Error">>,
    <<"AI returned acknowledgment text instead of translation",
      " - likely missing CSV data">>)

\* "Detect incomplete responses that suggest the AI was explaining"
mentionsStructure(resp) ==
  /\ \E i \in DOMAIN resp : resp[i] \in StructureWords
  /\ ~includes(resp, Comma)
  /\ length(resp) < 100

StructureSentinel ==
  TranslateResponse(<<"[ERROR]">>, <<"Error">>,
    <<"Response mentions CSV structure without providing actual CSV">>)

lineStart(t, i) == i = 1 \/ t[i - 1] = NL

\* remove piece i and the line breaks that follow it
RECURSIVE dropWithBlanks(_, _)
dropWithBlanks(t, i) ==
  IF i + 1 \in DOMAIN t /\ t[i + 1] = NL
  THEN dropWithBlanks(SubSeq(t, 1, i) \o SubSeq(t, i + 2, Len(t)), i)
  ELSE SubSeq(t, 1, i - 1) \o SubSeq(t, i + 1, Len(t))

\* replace(/^```(?:csv)?\s*\n?/gm, ''): every fence of the universe starts
\* a line, so replace(/\n?```\s*$/gm, '') finds none afterwards
RECURSIVE removeFences(_)
removeFences(t) ==
  IF \E i \in DOMAIN t : t[i] = Fence /\ lineStart(t, i)
  THEN LET i == CHOOSE j \in DOMAIN t :
                  /\ t[j] = Fence /\ lineStart(t, j)
                  /\ \A h \in 1..(j - 1) : ~(t[h] = Fence /\ lineStart(t, h))
       IN removeFences(dropWithBlanks(t, i))
  ELSE t

\* replace(/^(?:Here(?:'s| is) (?:the|your) (?:translation|CSV).*?:)\s*/im,
\* ''): the first such line start only
removeIntroduction(t) ==
  IF \E i \in DOMAIN t : t[i] = HereIs /\ lineStart(t, i)
  THEN LET i == CHOOSE j \in DOMAIN t :
                  /\ t[j] = HereIs /\ lineStart(t, j)
                  /\ \A h \in 1..(j - 1) : ~(t[h] = HereIs /\ lineStart(t, h))
       IN dropWithBlanks(t, i)
  ELSE t

\* no piece holds markdown emphasis, smart quotes or "I've translated"
preprocessResponse(resp) == trim(removeIntroduction(removeFences(resp)))

\* Papa.parse(row, {skipEmptyLines: true}).data[0] || []
parseRow(row) == IF row = <<>> THEN <<>> ELSE split(row, Comma)

\* the null of parseAIResponse; parsed?.translation is then falsy
Null == TranslateResponse(<<>>, <<>>, <<>>)

\* "Skip lines that look like headers or instructions"
looksLikeHeader(line) ==
  LET low == toLowerCase(line)
  IN \/ \E i \in DOMAIN low :
          low[i] = "key" /\ i + 1 \in DOMAIN low /\ low[i + 1] = Comma
     \/ /\ \E i \in DOMAIN low : low[i] = "category"
        /\ \E i \in DOMAIN low : low[i] = "reasoning"

parseAIResponse(resp) ==
  LET cleanResponse == preprocessResponse(resp)
      lines == nonBlank(split(cleanResponse, NL))
      data == {i \in DOMAIN lines :
                 ~looksLikeHeader(lines[i]) /\ includes(lines[i], Comma)}
  IN IF \E i \in DOMAIN cleanResponse :
          cleanResponse[i] \in StartsWithPromise \cup OutputsFourFields
     THEN Null
     ELSE IF data = {} THEN Null
     ELSE LET dataLine == lines[CHOOSE i \in data : \A j \in data : i <= j]
              fields == parseRow(dataLine)
          IN IF Len(fields) < 2 THEN Null
             ELSE IF trim(fields[2]) = <<>> THEN Null
             ELSE TranslateResponse(trim(fields[2]),
                    IF 3 \in DOMAIN fields /\ trim(fields[3]) # <<>>
                    THEN trim(fields[3]) ELSE <<"Unknown">>,
                    IF 4 \in DOMAIN fields /\ trim(fields[4]) # <<>>
                    THEN trim(fields[4]) ELSE <<"Parsed from CSV">>)


\* where /translation[:\s]*(.+?)(?:,|\n|$)/i (then translated, result) can
\* match: after the word and the blanks behind it, one character or more
\* that is no line break
captureStart(resp, i) ==
  LET rest == trimStart(SubSeq(resp, i + 1, Len(resp)))
  IN Len(resp) - Len(rest) + 1

canCapture(resp, i) ==
  /\ resp[i] \in EndsWithResultWord
  /\ captureStart(resp, i) \in DOMAIN resp

\* match[1]: the shortest run from there that a comma, a line break or the
\* end follows
captured(resp, i) ==
  LET j == captureStart(resp, i)
      stops == {k \in j..Len(resp) :
                  k = Len(resp) \/ resp[k + 1] \in {Comma, NL}}
  IN SubSeq(resp, j, CHOOSE k \in stops : \A h \in stops : k <= h)

\* ResponseValidator.checkLanguageSpecific; no piece holds a letter proper
\* to Spanish or one of the common Spanish words
hasDevanagari(text) == includes(text, Devanagari)

\* text.split(' ').length
wordCount(text) ==
  LET spaces(p) == CASE p = AckPhrase -> 6
                     [] p = HereIs -> 3
                     [] p = "Cannot translate this" -> 2
                     [] OTHER -> 0
      RECURSIVE sum(_)
      sum(t) == IF t = <<>> THEN 0 ELSE spaces(Head(t)) + sum(Tail(t))
  IN 1 + sum(text)

checkLanguageSpecific(text, language) ==
  LET penalty ==
        CASE lowerPiece(language) = "spanish" ->
               (IF length(text) > 20 THEN 10 ELSE 0)
               + (IF wordCount(text) > 3 THEN 20 ELSE 0)
          [] lowerPiece(language) = "hindi" ->
               IF ~hasDevanagari(text) THEN 50 ELSE 0
          [] OTHER -> 0
  IN [valid |-> penalty < 30, penalty |-> penalty]

\* the pieces matching one of the validator's explanatoryPatterns
ExplanatoryText == {AckPhrase, HereIs}

\* the pieces matching one of the validator's failurePatterns at their start
FailureStart == {"Sorry"}

StyleDescriptors == {"concise", "formal", "casual", "polite", "friendly"}

\* ResponseValidator.validateTranslationResponse: the checks that failed and
\* the confidence left
validateTranslationResponse(resp, originalText, targetLanguage) ==
  LET languageChecks == checkLanguageSpecific(resp, targetLanguage)
      low == toLowerCase(resp)
      tooShort == length(resp) < 3
      identical == low = toLowerCase(originalText)
      explanatory == \E i \in DOMAIN resp : resp[i] \in ExplanatoryText
      failure == resp # <<>> /\ Head(resp) \in FailureStart
      newlines == includes(resp, NL) /\ ~includes(resp, Comma)
      style == \/ Len(low) = 1 /\ low[1] \in StyleDescriptors
               \/ /\ Len(low) = 2
                  /\ \A i \in 1..2 :
                       low[i] \in StyleDescriptors \cup {"translation"}
      confidence ==
        100 - (IF tooShort THEN 40 ELSE 0)
            - (IF identical THEN 50 ELSE 0)
            - (IF explanatory THEN 80 ELSE 0)
            - (IF failure THEN 60 ELSE 0)
            - (IF ~languageChecks.valid THEN languageChecks.penalty ELSE 0)
            - (IF newlines THEN 20 ELSE 0)
            - (IF style THEN 70 ELSE 0)
  IN [isValid |-> confidence >= 50,
      issues |-> {c \in {"short", "identical", "explanatory", "failure",
                         "language", "newlines", "style"} :
                    CASE c = "short" -> tooShort
                      [] c = "identical" -> identical
                      [] c = "explanatory" -> explanatory
                      [] c = "failure" -> failure
                      [] c = "language" -> ~languageChecks.valid
                      [] c = "newlines" -> newlines
                      [] c = "style" -> style},
      confidence |-> Max(0, confidence)]


\* validation.issues[0]: the checks push their issues in this order
firstIssue(issues) ==
  LET order == <<"short", "identical", "explanatory", "failure", "language",
                 "newlines", "style">>
  IN order[CHOOSE i \in DOMAIN order :
             order[i] \in issues /\ \A h \in 1..(i - 1) : order[h] \notin issues]

\* "Fallback 1: Try to extract translation from common patterns"
extractable(resp) == \E i \in DOMAIN resp : canCapture(resp, i)

extracted(resp) ==
  LET i == CHOOSE j \in DOMAIN resp :
             canCapture(resp, j) /\ \A h \in 1..(j - 1) : ~canCapture(resp, h)
  IN TranslateResponse(trim(captured(resp, i)), <<"Unknown">>,
                       <<"Extracted from response">>)

\* parseWithFallbacks, explanatoryPatterns
explanatory(cleanedResponse) ==
  \E i \in DOMAIN cleanedResponse : cleanedResponse[i] \in StartsWithPromise

\* "Try one more time to extract just the translation part"
possibleTranslation(cleanedResponse) ==
  IF includes(cleanedResponse, Comma)
  THEN trim(split(cleanedResponse, Comma)[2])
  ELSE <<>>

malformedCSV(cleanedResponse, text) ==
  /\ possibleTranslation(cleanedResponse) # <<>>
  /\ possibleTranslation(cleanedResponse) # text

\* "Validate before accepting as translation"
validated(cleanedResponse, text, targetLanguage) ==
  /\ targetLanguage # ""
  /\ ~includes(cleanedResponse, Comma)

\* "Direct response assumed as translation"
direct(cleanedResponse, text) ==
  /\ length(cleanedResponse) < length(text) * 3
  /\ \A i \in DOMAIN cleanedResponse :
       lowerPiece(cleanedResponse[i]) \notin MentionsTranslate

failedToParse_Unknown(text) ==
  TranslateResponse(text, <<"Unknown">>, <<"Failed to parse AI response">>)

\* "Final fallback: Return original text"
failedToParse(text) ==
  TranslateResponse(text, <<"Error">>, <<"Failed to parse AI response">>)

\* the step of parseWithFallbacks that returns; targetLanguage "" is
\* undefined
returningStep(resp, text, targetLanguage) ==
  LET cleanedResponse == trim(resp)
  IN IF acknowledgment(resp) THEN "acknowledgment"
     ELSE IF mentionsStructure(resp) THEN "structure"
     ELSE IF parseAIResponse(resp).translation # <<>> THEN "primary"
     ELSE IF extractable(resp) THEN "fallback1"
     ELSE IF explanatory(cleanedResponse) THEN "explanatory"
     ELSE IF malformedCSV(cleanedResponse, text) THEN "malformed"
     ELSE IF /\ validated(cleanedResponse, text, targetLanguage)
             /\ ~validateTranslationResponse(cleanedResponse, text,
                                             targetLanguage).isValid
     THEN "invalid"
     ELSE IF direct(cleanedResponse, text) THEN "direct"
     ELSE "final"

\* RobustCSVParser.parseWithFallbacks
parseWithFallbacks(resp, text, targetLanguage) ==
  LET cleanedResponse == trim(resp)
      validation ==
        validateTranslationResponse(cleanedResponse, text, targetLanguage)
      step == returningStep(resp, text, targetLanguage)
  IN CASE step = "acknowledgment" -> AckSentinel
       [] step = "structure" -> StructureSentinel
       [] step = "primary" -> parseAIResponse(resp)
       [] step = "fallback1" -> extracted(resp)
       [] step = "explanatory" ->
            TranslateResponse(text, <<"Error">>,
              <<"AI returned explanatory text instead of translation">>)
       [] step = "malformed" ->
            TranslateResponse(possibleTranslation(cleanedResponse),
              <<"Unknown">>, <<"Extracted from malformed CSV">>)
       [] step = "invalid" ->
            TranslateResponse(text, <<"Error">>,
              <<"Invalid response: ", firstIssue(validation.issues)>>)
       [] step = "direct" ->
            TranslateResponse(cleanedResponse, <<"Unknown">>,
              <<"Direct response assumed as translation">>)
       [] step = "final" -> failedToParse(text)

\* BaseProvider.parseResponse
parseResponse(resp, text, targetLanguage) ==
  parseWithFallbacks(resp, text, targetLanguage)

\* OpenAIProvider.parseCSVLine / AnthropicProvider.parseCSVLine on a line
\* without quote characters
parseCSVLine(line) == split(line, Comma)

\* the first line of the loop of parseCSVResponse that returns
returns(line, expectedKey, single) ==
  LET fields == parseCSVLine(line)
  IN /\ trim(line) # <<>>
     /\ \/ Len(fields) >= 4 /\ (fields[1] = expectedKey \/ single)
        \/ Len(fields) \in {2, 3}

\* OpenAIProvider.parseCSVResponse / AnthropicProvider.parseCSVResponse
parseCSVResponse(resp, expectedKey, originalText, language) ==
  LET lines == split(trim(resp), NL)
      hits == {i \in DOMAIN lines :
                 returns(lines[i], expectedKey, Len(lines) = 1)}
  IN IF hits = {} THEN parseResponse(resp, originalText, language)
     ELSE LET fields ==
                parseCSVLine(lines[CHOOSE i \in hits : \A j \in hits : i <= j])
          IN IF Len(fields) >= 4
             THEN TranslateResponse(orElse(fields, 2, originalText),
                    orElse(fields, 3, <<"Unknown">>),
                    orElse(fields, 4, <<"Parsed from CSV response">>))
             ELSE TranslateResponse(fields[2],
                    orElse(fields, 3, <<"Unknown">>),
                    orElse(fields, 4, <<"Parsed from partial CSV response">>))


\* a Map<string, TranslateResponse> in insertion order
resultsHas(results, key) == \E i \in DOMAIN results : results[i].key = key

resultsGet(results, key) ==
  results[CHOOSE i \in DOMAIN results : results[i].key = key].value

resultsSet(results, key, value) ==
  IF resultsHas(results, key)
  THEN [i \in DOMAIN results |->
          IF results[i].key = key
          THEN [key |-> key, value |-> value] ELSE results[i]]
  ELSE Append(results, [key |-> key, value |-> value])

resultsDelete(results, key) ==
  SelectSeq(results, LAMBDA r : r.key # key)

\* parseBatchCSVResponse, "Clean response" and "Split into lines"
batchLines(resp) == nonBlank(split(trim(removeFences(resp)), NL))

\* "Skip header if present"
startIndex(lines) ==
  IF /\ lines # <<>>
     /\ \E i \in DOMAIN lines[1] : lowerPiece(lines[1][i]) = "key"
     /\ \E i \in DOMAIN lines[1] :
          lowerPiece(lines[1][i]) \in {"translation", lowerPiece(HereIs)}
  THEN 1 ELSE 0

\* "Parse each line": the loop from 0-based line i on
RECURSIVE recoverRows(_, _, _)
recoverRows(lines, i, results) ==
  IF i >= Len(lines) THEN results
  ELSE LET fields == parseCSVLine(trim(lines[i + 1]))
       IN IF Len(fields) >= 4
          THEN IF resultsHas(results, fields[1])
               THEN recoverRows(lines, i + 1, results)
               ELSE recoverRows(lines, i + 1,
                      resultsSet(results, fields[1],
                        TranslateResponse(fields[2],
                          orElse(fields, 3, <<"Unknown">>),
                          orElse(fields, 4, <<"Batch translated">>))))
          ELSE IF Len(fields) >= 2
          THEN recoverRows(lines, i + 1,
                 resultsSet(results, fields[1],
                   TranslateResponse(fields[2],
                     orElse(fields, 3, <<"Unknown">>),
                     orElse(fields, 4, <<"Partial response">>))))
          ELSE recoverRows(lines, i + 1, results)

\* what replace(/[^a-z0-9]/g, '') leaves of a lowered piece
alphanumeric(p) ==
  CASE p \in {".", "_", Comma, NL, Fence, Devanagari} -> ""
    [] p = lowerPiece(AckPhrase) -> "illoutputthefourfieldsnow"
    [] p = lowerPiece(HereIs) -> "hereisthetranslation"
    [] p = "cannot translate this" -> "cannottranslatethis"
    [] OTHER -> p

\* key.toLowerCase().replace(/[^a-z0-9]/g, '')
normalized(key) ==
  SelectSeq([i \in DOMAIN key |-> alphanumeric(lowerPiece(key[i]))],
            LAMBDA p : p # "")

\* "Try normalized key matching" for one requested key
adopt(results, key) ==
  LET matches == {i \in DOMAIN results :
                    normalized(results[i].key) = normalized(key)}
  IN IF resultsHas(results, key) \/ matches = {} THEN results
     ELSE LET first == results[CHOOSE i \in matches : \A j \in matches : i <= j]
          IN resultsDelete(resultsSet(results, key, first.value), first.key)

RECURSIVE adoptAll(_, _)
adoptAll(results, requested) ==
  IF requested = <<>> THEN results
  ELSE adoptAll(adopt(results, Head(requested)), Tail(requested))

\* "If we didn't get all entries, try fuzzy matching"
fuzzyMatching(results, requested) ==
  IF Len(results) < Len(requested) THEN adoptAll(results, requested)
  ELSE results

\* OpenAIProvider.parseBatchCSVResponse / AnthropicProvider's
parseBatchCSVResponse(resp, requested) ==
  LET lines == batchLines(resp)
  IN fuzzyMatching(recoverRows(lines, startIndex(lines), <<>>), requested)

MissingSentinel ==
  TranslateResponse(<<"[ERROR]">>, <<"Error">>,
                    <<"Missing from batch response">>)

FailedSentinel ==
  TranslateResponse(<<"[ERROR]">>, <<"Error">>,
                    <<"Batch translation failed: ", "Unknown error">>)

\* OpenAIProvider.translateBatch / AnthropicProvider.translateBatchWithRetry
\* from the answer of the client on: threw is a failed API call
providerTranslateBatch(requested, resp, threw) ==
  LET keys == {requested[i] : i \in DOMAIN requested}
      rows == parseBatchCSVResponse(resp, requested)
  IN IF threw
     THEN [parsed |-> <<>>,
           results |-> [k \in keys |-> FailedSentinel], errors |-> keys]
     ELSE [parsed |-> rows,
           results |-> [k \in keys |->
                          IF resultsHas(rows, k) THEN resultsGet(rows, k)
                          ELSE MissingSentinel],
           errors |-> {k \in keys : ~resultsHas(rows, k)}]


---------------------------------------------------------------------------
(* The answers a model gives, and the parsing calls made on them *)

MenuSettings == <<"menu", ".", "settings">>

RowKeys == {MenuSettings, <<"Menu", "_", "Settings">>,
            <<"menu", "_", "settings">>}

RequestKeys == {MenuSettings, <<"menu", "_", "settings">>}

RowTranslations == {<<"Settings">>, <<Devanagari>>, <<>>}

\* the lines of an answer: full rows, partial rows, a header, prose
AnswerLines ==
  {join(<<k, t, <<"UI">>, <<"ok">>>>, Comma) :
     k \in RowKeys, t \in RowTranslations}
  \cup {join(<<k, t>>, Comma) : k \in RowKeys, t \in RowTranslations \ {<<>>}}
  \cup {<<"Key", Comma, "Translation", Comma, "Category", Comma, "Reasoning">>,
        <<"Sure", Comma, AckPhrase>>, <<AckPhrase>>, <<HereIs>>,
        <<"Settings">>, <<Devanagari>>, <<"Configure">>,
        <<"Cannot translate this">>, <<"Sorry">>, <<Fence>>, <<>>}

RECURSIVE Answers(_)
Answers(n) ==
  IF n = 0 THEN {<<>>}
  ELSE Answers(n - 1)
       \cup {join(ls, NL) : ls \in [1..n -> AnswerLines]}

SourceTexts == {<<"Configure">>, <<"Settings">>}

Languages == {"Hindi", "Spanish", ""}

RequestLists ==
  UNION {[1..n -> RequestKeys] : n \in 1..MaxRequested}

InitParse ==
  /\ EngineUnused
  /\ LimiterUnused
  /\ RetryUnused
  /\ BatchUnused
  /\ RouteUnused
  /\ now = 0
  /\ aiResponse \in Answers(MaxLines)
  /\ parseCall = NoParseCall
  /\ parseResult = NoParseResult
  /\ BackoffUnused

\* BaseProvider.parseResponse on the answer to a plain prompt
ParseResponse(text, language) ==
  /\ parseCall.fn = "none"
  /\ parseCall' = [NoParseCall EXCEPT !.fn = "parseResponse",
                     !.text = text, !.language = language]
  /\ parseResult' = parseResponse(aiResponse, text, language)
  /\ UNCHANGED <<aiResponse, notParse>>

\* parseCSVResponse on the answer to a CSV prompt
ParseCSVResponse(key, text, language) ==
  /\ parseCall.fn = "none"
  /\ parseCall' = [NoParseCall EXCEPT !.fn = "parseCSVResponse",
                     !.key = key, !.text = text, !.language = language]
  /\ parseResult' = parseCSVResponse(aiResponse, key, text, language)
  /\ UNCHANGED <<aiResponse, notParse>>

\* translateBatch from the client's answer on
TranslateBatch(requested, threw) ==
  /\ parseCall.fn = "none"
  /\ parseCall' = [NoParseCall EXCEPT !.fn = "translateBatch",
                     !.entries = requested, !.threw = threw]
  /\ parseResult' = providerTranslateBatch(requested, aiResponse, threw)
  /\ UNCHANGED <<aiResponse, notParse>>

NextParse ==
  \/ \E text \in SourceTexts, language \in Languages :
       ParseResponse(text, language)
  \/ \E key \in RequestKeys, text \in SourceTexts, language \in Languages :
       ParseCSVResponse(key, text, language)
  \/ \E requested \in RequestLists, threw \in BOOLEAN :
       TranslateBatch(requested, threw)

SpecParse == InitParse /\ [][NextParse]_vars

SingleParse == parseCall.fn \in {"parseResponse", "parseCSVResponse"}

\* C16: on both single-task parse paths, parseWithFallbacks and the
\* providers' parseCSVResponse, an answer that matches an acknowledgment
\* pattern yields the Error-category sentinel; none of its fields or
\* trailing text is returned as the translation.
C16_AcknowledgmentFirst ==
  (SingleParse /\ acknowledgment(aiResponse)) =>
    /\ parseResult.category = <<"Error">>
    /\ parseResult.translation = <<"[ERROR]">>


\* the rows of the answer whose first field is the expected key
KeyRows ==
  LET lines == split(trim(aiResponse), NL)
  IN {i \in DOMAIN lines :
        LET fields == parseCSVLine(lines[i])
        IN Len(fields) >= 2 /\ fields[1] = parseCall.key}

\* C33: in the single-task structural parse (parseCSVResponse), when the
\* answer has several rows and one of them has the expected key as its
\* first field, the result is taken from that row, whatever rows precede it.
C33_ExpectedKeyRowWins ==
  LET lines == split(trim(aiResponse), NL)
  IN (parseCall.fn = "parseCSVResponse" /\ Len(lines) > 1 /\ KeyRows # {}) =>
       LET fields ==
             parseCSVLine(lines[CHOOSE i \in KeyRows :
                                  \A j \in KeyRows : i <= j])
       IN parseResult.translation = orElse(fields, 2, parseCall.text)

BatchParse == parseCall.fn = "translateBatch" /\ ~parseCall.threw

Requested == {parseCall.entries[i] : i \in DOMAIN parseCall.entries}

\* the rows recovered from the answer, before any key is adopted
recovered ==
  recoverRows(batchLines(aiResponse), startIndex(batchLines(aiResponse)), <<>>)

\* the recovered rows whose key equals k once both are normalized
alike(k) ==
  {i \in DOMAIN recovered : normalized(recovered[i].key) = normalized(k)}

\* C17: in parseBatchCSVResponse a requested key without an exactly
\* matching row adopts a recovered row whose key equals it after lowercasing
\* and removing the non-alphanumeric characters (menu.settings adopts the
\* row of Menu_Settings).
C17_FuzzyKeyAdopted ==
  BatchParse =>
    \A k \in Requested :
      (/\ ~resultsHas(recovered, k)
       /\ alike(k) # {}
       /\ \A other \in Requested \ {k} : normalized(other) # normalized(k))
      => /\ resultsHas(parseResult.parsed, k)
         /\ \E i \in alike(k) :
              resultsGet(parseResult.parsed, k) = recovered[i].value

\* C18: after translateBatch has received an answer its results hold
\* exactly the requested keys; a requested key with a recovered row keeps
\* that row's values, a requested key without one gets the sentinel
\* ('[ERROR]', 'Error', 'Missing from batch response') and is listed in
\* errors; a missing key never costs a recovered sibling its row.
C18_PartialBatchKept ==
  BatchParse =>
    /\ DOMAIN parseResult.results = Requested
    /\ \A k \in Requested :
         /\ resultsHas(recovered, k) =>
              parseResult.results[k] = resultsGet(recovered, k)
         /\ (~resultsHas(recovered, k) /\ alike(k) = {}) =>
              /\ parseResult.results[k] = MissingSentinel
              /\ k \in parseResult.errors

\* the candidate that parseWithFallbacks hands to the validator
Candidate == trim(aiResponse)

Validation ==
  validateTranslationResponse(Candidate, parseCall.text, parseCall.language)

\* parseWithFallbacks got as far as validating the candidate
ReachedValidation ==
  /\ parseCall.fn = "parseResponse"
  /\ returningStep(aiResponse, parseCall.text, parseCall.language)
       \in {"invalid", "direct", "final"}
  /\ validated(Candidate, parseCall.text, parseCall.language)

\* C19: a comma-free candidate whose only failed check is the missing
\* target script ("Settings" for Hindi, source of 9 characters) is rejected:
\* confidence below 50, isValid false, and parseWithFallbacks returns an
\* Error-category sentinel.
C19_MissingScriptRejected ==
  (ReachedValidation /\ Validation.issues = {"language"}
     /\ lowerPiece(parseCall.language) = "hindi") =>
    /\ Validation.confidence < 50
    /\ ~Validation.isValid
    /\ parseResult.category = <<"Error">>

\* a string of the program
IsText(t) == t \in Seq(STRING)

\* C20: parseWithFallbacks always returns a TranslateResponse, and when no
\* earlier step of its pipeline returns it gives back the source text with
\* category 'Error' and reasoning 'Failed to parse AI response'.
C20_ParseIsTotal ==
  SingleParse =>
    /\ DOMAIN parseResult = {"translation", "category", "reasoning"}
    /\ IsText(parseResult.translation)
    /\ IsText(parseResult.category) /\ parseResult.category # <<>>
    /\ IsText(parseResult.reasoning) /\ parseResult.reasoning # <<>>
    /\ (/\ parseCall.fn = "parseResponse"
        /\ ~acknowledgment(aiResponse)
        /\ ~mentionsStructure(aiResponse)
        /\ parseAIResponse(aiResponse) = Null
        /\ ~extractable(aiResponse)
        /\ ~explanatory(Candidate)
        /\ ~malformedCSV(Candidate, parseCall.text)
        /\ ~(validated(Candidate, parseCall.text, parseCall.language)
             /\ ~Validation.isValid)
        /\ ~direct(Candidate, parseCall.text))
       => parseResult = [translation |-> parseCall.text,
                         category |-> <<"Error">>,
                         reasoning |-> <<"Failed to parse AI response">>]

C20_Witness ==
  /\ parseCall.fn = "parseResponse"
  /\ returningStep(aiResponse, parseCall.text, parseCall.language) = "final"
  /\ parseResult.reasoning = <<"Failed to parse AI response">>
  /\ aiResponse # <<>>

---------------------------------------------------------------------------
(* The backoff delay on its own: calculateBackoffDelay called for an       *)
(* attempt number, as test-rate-limiting.js does for attempts 1 to 4, with *)
(* the value Math.random() * 1000 takes (whole milliseconds here).         *)

MaxAttempt == 5
JitterStep == 50

\* values of Math.random() * 1000, which lies in [0, 1000)
Jitters == {k * JitterStep : k \in 0..(999 \div JitterStep)} \cup {999}

InitBackoff ==
  /\ EngineUnused
  /\ LimiterUnused
  /\ RetryUnused
  /\ BatchUnused
  /\ RouteUnused
  /\ ParseUnused
  /\ now = 0
  /\ backoff = NoBackoff

\* provider.calculateBackoffDelay(attempt)
CalculateBackoffDelay(attempt, jitter) ==
  /\ backoff' = [attempt |-> attempt, jitter |-> jitter,
                 delay |-> calculateBackoffDelay(attempt, jitter)]
  /\ UNCHANGED notBackoff

NextBackoff ==
  \E attempt \in 1..MaxAttempt, jitter \in Jitters :
    CalculateBackoffDelay(attempt, jitter)

SpecBackoff == InitBackoff /\ [][NextBackoff]_vars

\* C30: the backoff delay before retry n is min(2000 * 2^(n-1) + jitter,
\* 30000) ms with 0 <= jitter <= 1000: it is at least min(2000 * 2^(n-1),
\* 30000), never more than 30000, and its lower bound (the delay without
\* jitter) does not decrease as n grows.
C30_BackoffDelay ==
  backoff.attempt >= 1 =>
    LET n == backoff.attempt
        base == 2000 * (2 ^ (n - 1))
    IN /\ backoff.jitter \in 0..1000
       /\ backoff.delay = Min(base + backoff.jitter, 30000)
       /\ backoff.delay >= Min(base, 30000)
       /\ backoff.delay <= 30000
       /\ \A m \in 1..n :
            /\ calculateBackoffDelay(m, 0) = Min(2000 * (2 ^ (m - 1)), 30000)
            /\ calculateBackoffDelay(m, 0) <= calculateBackoffDelay(n, 0)

\* the delay of the fifth attempt, where 2000 * 2^4 exceeds the cap
C30_Witness ==
  /\ backoff.attempt = 5
  /\ backoff.jitter > 0
  /\ backoff.delay = 30000

===========================================================================
